---- MODULE Spec2Model ----
(***************************************************************************)
(* Model of the request pipeline of the Anchor TypeScript SDK:             *)
(* HttpClient.request (retry loop, backoff, timeout), HttpClient.          *)
(* handleError (error classification) and the exception classes.           *)
(*                                                                         *)
(* One logical call is a sequence of steps separated by the awaits of the  *)
(* async function: await fetch, await response.text(), await sleep.        *)
(* An absent (undefined) JavaScript value is the empty tuple, a present    *)
(* value v is the one-element tuple <<v>>.                                 *)
(***************************************************************************)
EXTENDS Integers, Sequences, FiniteSets, TLC

\* Largest retryAttempts value a client is configured with.
MaxRetryAttempts == 2

\* Defaults applied by HttpClient.request when a setting is unset.
DefaultTimeout == 30000
DefaultRetryAttempts == 3
DefaultRetryDelay == 1000
\* Status assumed for a falsy response.status (response.status || 500).
DefaultStatus == 500

None == <<>>
Some(v) == <<v>>

\* a ?? d
Coalesce(o, d) == IF o = None THEN d ELSE o[1]
\* a || d, for numbers
OrNum(o, d) == IF o = None \/ o[1] = 0 THEN d ELSE o[1]
\* truthiness of an optional string
TruthyStr(o) == o # None /\ o[1] # ""

(***************************************************************************)
(* Inputs: client configurations, transport failures, responses.           *)
(***************************************************************************)
\* A base URL as the text of its parts: scheme "" is text without a scheme.
\* slash: the text ends with "/".
DefaultBaseUrl ==
  [scheme |-> "https", authority |-> "api.getanchor.dev", slash |-> FALSE]
EmptyUrl == [scheme |-> "", authority |-> "", slash |-> FALSE]
BaseUrls ==
  { [scheme |-> "http", authority |-> "localhost:5050", slash |-> FALSE],
    [scheme |-> "", authority |-> "api.getanchor.dev", slash |-> FALSE] }

\* timeout and retryDelay are both unset, both 0 or both positive; a client
\* given a base URL of its own keeps the other settings unset, without
\* retries.
Configs ==
  { [ timeout |-> td[1], retryAttempts |-> n, retryDelay |-> td[2],
      baseUrl |-> None, apiKey |-> Some("anc_test_key") ] :
      td \in { <<None, None>>, <<Some(0), Some(0)>>, <<Some(50), Some(100)>> },
      n \in {None} \cup {Some(k) : k \in 0..MaxRetryAttempts} }
  \cup
  { [ timeout |-> None, retryAttempts |-> Some(0), retryDelay |-> None,
      baseUrl |-> Some(u), apiKey |-> Some("anc_test_key") ] : u \in BaseUrls }

\* The configurations of the clients whose requests are observed on the
\* wire: with and without an API key, one retry.
KeyedConfigs ==
  { [ timeout |-> None, retryAttempts |-> Some(1), retryDelay |-> None,
      baseUrl |-> None, apiKey |-> k ] : k \in {None, Some(""), Some("anc_test_key")} }
  \cup
  { [ timeout |-> None, retryAttempts |-> Some(1), retryDelay |-> None,
      baseUrl |-> Some([scheme |-> "http", authority |-> "localhost:5050", slash |-> FALSE]),
      apiKey |-> Some("anc_test_key") ] }

\* Values of query parameters.
Undefined == [type |-> "undefined"]
Null == [type |-> "null"]
Num(n) == [type |-> "number", value |-> n]
Bool(b) == [type |-> "boolean", value |-> b]
Str(t) == [type |-> "string", value |-> t]
Param(key, value) == [key |-> key, value |-> value]

\* The params argument: undefined, or a mapping in insertion order.
ParamMappings ==
  { << >>,
    << Param("limit", Num(50)), Param("offset", Num(0)) >>,
    << Param("limit", Undefined), Param("prefix", Null) >>,
    << Param("prefix", Str("user:")), Param("limit", Undefined),
       Param("verbose", Bool(FALSE)), Param("offset", Num(0)) >>,
    << Param("limit", Num(100)), Param("operations", Str("data.write,data.delete")),
       Param("end", Null) >> }

\* The data argument: undefined, or an object.
DataObjects == { {}, { << "name", "helper" >> } }

\* The arguments of request as get, post, put, patch and delete pass them.
Arguments(method, endpoint, data, params) ==
  [method |-> method, endpoint |-> endpoint, data |-> data, params |-> params]
PlainGet == Arguments("GET", "/agents", None, None)
RequestArguments ==
  { Arguments("GET", "/agents", None, q) : q \in {None} \cup {Some(m) : m \in ParamMappings} }
  \cup { Arguments("DELETE", "/agents/agent_1/data", None, q) :
           q \in {None, Some(<< Param("prefix", Str("user:")) >>)} }
  \cup { Arguments("POST", "/agents", d, None) : d \in {None} \cup {Some(o) : o \in DataObjects} }
  \cup { Arguments(m, "/agents/agent_1", Some({ << "name", "helper" >> }), None) :
           m \in {"PUT", "PATCH"} }

\* Values fetch rejects with: the abort raised by the timeout timer, an
\* Error with a message, and a thrown value without a message.
AbortError == [name |-> "AbortError", message |-> Some("This operation was aborted"), str |-> "AbortError: This operation was aborted"]
FetchErrors ==
  { AbortError,
    [name |-> "TypeError", message |-> Some("Connection failed"), str |-> "TypeError: Connection failed"],
    [name |-> "Error", message |-> None, str |-> "Error"] }

\* Status codes of the Responses fetch resolves with.  A Response that fetch
\* resolves with always has a status in 200..599: failures of the network
\* reject, and the request sets neither a no-cors mode nor manual redirects.
Statuses == {200, 204, 302, 400, 401, 403, 404, 409, 429, 499, 500, 503}

\* response.ok as the fetch standard defines it.
IsOk(status) == status >= 200 /\ status <= 299

EmptyObject ==
  [ message |-> None, error |-> None, blocked_by |-> None, policy_name |-> None,
    field |-> None, required_permission |-> None, retry_after |-> None,
    result |-> None ]

\* JSON objects a server answers with.  The three context fields (field,
\* required_permission, retry_after) come together or not at all.
ErrorObjects ==
  { [ message |-> m, error |-> e, blocked_by |-> b, policy_name |-> p,
      field |-> x[1], required_permission |-> x[2], retry_after |-> x[3],
      result |-> None ] :
      m \in {None, Some("Invalid input")},
      e \in {None, Some("bad request")},
      b \in {None, Some(""), Some("pii_filter")},
      p \in {None, Some("no_secrets")},
      x \in { <<None, None, None>>,
              <<Some("email"), Some("write:data"), Some(60)>> } }

JsonObjects == ErrorObjects \cup { [EmptyObject EXCEPT !.result = Some("success")] }

\* Outcomes of await response.text(): a rejection, the empty string, text
\* that is not JSON, or the text of a JSON object.
RawText == "Server error text"
Texts ==
  { [kind |-> "throws"], [kind |-> "empty"], [kind |-> "raw", text |-> RawText] }
  \cup { [kind |-> "json", value |-> o] : o \in JsonObjects }

(***************************************************************************)
(* exceptions.ts: the exception classes, as constructors of records.       *)
(***************************************************************************)
AnchorAPIError(message, statusCode, response) ==
  [ name |-> "AnchorAPIError", code |-> "api_error",
    message |-> ToString(statusCode) \o ": " \o message,
    statusCode |-> statusCode, response |-> response ]

AuthenticationError(message, statusCode, response) ==
  [name |-> "AuthenticationError", code |-> "authentication_error"]
    @@ AnchorAPIError(message, statusCode, response)

AuthorizationError(message, statusCode, response, requiredPermission) ==
  [name |-> "AuthorizationError", code |-> "authorization_error",
   requiredPermission |-> requiredPermission]
    @@ AnchorAPIError(message, statusCode, response)

NotFoundError(message, statusCode, response) ==
  [name |-> "NotFoundError", code |-> "not_found"]
    @@ AnchorAPIError(message, statusCode, response)

ValidationError(message, statusCode, response, field) ==
  [name |-> "ValidationError", code |-> "validation_error", field |-> field]
    @@ AnchorAPIError(message, statusCode, response)

PolicyViolationError(message, policyName, statusCode, response) ==
  [name |-> "PolicyViolationError", code |-> "policy_violation",
   policyName |-> policyName]
    @@ AnchorAPIError(message, statusCode, response)

RateLimitError(message, statusCode, response, retryAfter) ==
  [name |-> "RateLimitError", code |-> "rate_limit", retryAfter |-> retryAfter]
    @@ AnchorAPIError(message, statusCode, response)

ServerError(message, statusCode, response) ==
  [name |-> "ServerError", code |-> "server_error"]
    @@ AnchorAPIError(message, statusCode, response)

NetworkError(message) ==
  [name |-> "NetworkError", code |-> "network_error", message |-> message]

\* error instanceof AnchorAPIError
IsAnchorAPIError(error) == "statusCode" \in DOMAIN error

(***************************************************************************)
(* http.ts: HttpClient.handleError                                         *)
(***************************************************************************)
\* data?.message || data?.error || `HTTP ${statusCode}`
ErrorMessage(statusCode, data) ==
  IF TruthyStr(data.message) THEN data.message[1]
  ELSE IF TruthyStr(data.error) THEN data.error[1]
  ELSE "HTTP " \o ToString(statusCode)

\* data?.blocked_by || data?.policy_name
HasPolicyIndicator(data) == TruthyStr(data.blocked_by) \/ TruthyStr(data.policy_name)

\* data.blocked_by || data.policy_name || 'unknown'
PolicyName(data) ==
  IF TruthyStr(data.blocked_by) THEN data.blocked_by[1]
  ELSE IF TruthyStr(data.policy_name) THEN data.policy_name[1]
  ELSE "unknown"

\* Variant of handleError: only status 500 is a server error.
handleError_Only500(statusCode, data) ==
  LET message == ErrorMessage(statusCode, data) IN
  IF HasPolicyIndicator(data)
    THEN PolicyViolationError(message, PolicyName(data), statusCode, data)
  ELSE IF statusCode = 400
    THEN ValidationError(message, statusCode, data, data.field)
  ELSE IF statusCode = 401
    THEN AuthenticationError(message, statusCode, data)
  ELSE IF statusCode = 403
    THEN AuthorizationError(message, statusCode, data, data.required_permission)
  ELSE IF statusCode = 404
    THEN NotFoundError(message, statusCode, data)
  ELSE IF statusCode = 429
    THEN RateLimitError(message, statusCode, data, data.retry_after)
  ELSE IF statusCode = 500
    THEN ServerError(message, statusCode, data)
  ELSE AnchorAPIError(message, statusCode, data)

\* Variant of handleError: the policy check comes after the 400 and 403
\* branches.
handleError_StatusFirst(statusCode, data) ==
  LET message == ErrorMessage(statusCode, data) IN
  IF statusCode = 400
    THEN ValidationError(message, statusCode, data, data.field)
  ELSE IF statusCode = 403
    THEN AuthorizationError(message, statusCode, data, data.required_permission)
  ELSE IF HasPolicyIndicator(data)
    THEN PolicyViolationError(message, PolicyName(data), statusCode, data)
  ELSE IF statusCode = 401
    THEN AuthenticationError(message, statusCode, data)
  ELSE IF statusCode = 404
    THEN NotFoundError(message, statusCode, data)
  ELSE IF statusCode = 429
    THEN RateLimitError(message, statusCode, data, data.retry_after)
  ELSE IF statusCode >= 500
    THEN ServerError(message, statusCode, data)
  ELSE AnchorAPIError(message, statusCode, data)

\* The error handleError throws.
handleError(statusCode, data) ==
  LET message == ErrorMessage(statusCode, data) IN
  IF HasPolicyIndicator(data)
    THEN PolicyViolationError(message, PolicyName(data), statusCode, data)
  ELSE IF statusCode = 400
    THEN ValidationError(message, statusCode, data, data.field)
  ELSE IF statusCode = 401
    THEN AuthenticationError(message, statusCode, data)
  ELSE IF statusCode = 403
    THEN AuthorizationError(message, statusCode, data, data.required_permission)
  ELSE IF statusCode = 404
    THEN NotFoundError(message, statusCode, data)
  ELSE IF statusCode = 429
    THEN RateLimitError(message, statusCode, data, data.retry_after)
  ELSE IF statusCode >= 500
    THEN ServerError(message, statusCode, data)
  ELSE AnchorAPIError(message, statusCode, data)

(***************************************************************************)
(* http.ts: HttpClient.request                                             *)
(***************************************************************************)
\* this.config.timeout || 30000
Timeout(cfg) == OrNum(cfg.timeout, DefaultTimeout)
\* Variant of RetryAttempts: this.config.retryAttempts || 3
RetryAttempts_Or(cfg) == OrNum(cfg.retryAttempts, DefaultRetryAttempts)

\* this.config.retryAttempts ?? 3
RetryAttempts(cfg) == Coalesce(cfg.retryAttempts, DefaultRetryAttempts)
\* this.config.retryDelay || 1000
RetryDelay(cfg) == OrNum(cfg.retryDelay, DefaultRetryDelay)

\* this.config.baseUrl || 'https://api.getanchor.dev'
BaseUrl(cfg) ==
  IF cfg.baseUrl = None \/ cfg.baseUrl[1] = EmptyUrl
    THEN DefaultBaseUrl ELSE cfg.baseUrl[1]

\* The text of a base URL.
UrlText(u) ==
  (IF u.scheme = "" THEN "" ELSE u.scheme \o "://") \o u.authority
  \o (IF u.slash THEN "/" ELSE "")

\* String(value)
StringOf(v) ==
  IF v.type = "number" THEN ToString(v.value)
  ELSE IF v.type = "boolean" THEN (IF v.value THEN "true" ELSE "false")
  ELSE v.value

\* The application/x-www-form-urlencoded form of a name or value, as
\* URLSearchParams serializes it.
FormEncode(t) ==
  IF t = "user:" THEN "user%3A"
  ELSE IF t = "data.write,data.delete" THEN "data.write%2Cdata.delete"
  ELSE t

\* Variant of Appended: null and undefined only are told apart from values
\* by truthiness, so 0 and false are dropped too.
Appended_Truthy(params) ==
  SelectSeq(params, LAMBDA q : q.value.type \notin {"undefined", "null"}
                                /\ q.value # Num(0) /\ q.value # Bool(FALSE))

\* The entries url.searchParams.append is called for, in the order of
\* Object.entries(params).
Appended(params) ==
  SelectSeq(params, LAMBDA q : q.value.type \notin {"undefined", "null"})

\* url.searchParams as text: name=value pairs joined by &.
RECURSIVE SearchText(_)
SearchText(entries) ==
  IF entries = << >> THEN ""
  ELSE FormEncode(entries[1].key) \o "=" \o FormEncode(StringOf(entries[1].value))
       \o (IF Len(entries) = 1 THEN "" ELSE "&" \o SearchText(Tail(entries)))

\* url.toString()
Href(cfg, args) ==
  LET entries == IF args.params = None THEN << >> ELSE Appended(args.params[1])
  IN UrlText(BaseUrl(cfg)) \o args.endpoint
     \o (IF entries = << >> THEN "" ELSE "?" \o SearchText(entries))

\* Variant of Headers: the content type goes with every POST, PUT and PATCH.
Headers_ByMethod(cfg, args) ==
  { << "User-Agent", "anchorai-typescript/1.0.0" >> }
  \cup (IF TruthyStr(cfg.apiKey) THEN { << "X-API-Key", cfg.apiKey[1] >> } ELSE {})
  \cup (IF args.method \in {"POST", "PUT", "PATCH"}
          THEN { << "Content-Type", "application/json" >> } ELSE {})

\* The headers object.
Headers(cfg, args) ==
  { << "User-Agent", "anchorai-typescript/1.0.0" >> }
  \cup (IF TruthyStr(cfg.apiKey) THEN { << "X-API-Key", cfg.apiKey[1] >> } ELSE {})
  \cup (IF args.data # None THEN { << "Content-Type", "application/json" >> } ELSE {})

\* JSON.stringify(data)
JsonStringify(data) == IF data = {} THEN "{}" ELSE "{\"name\":\"helper\"}"

\* What fetchFn is called with (the signal apart).
FetchArguments(cfg, args) ==
  [ url |-> Href(cfg, args),
    method |-> args.method,
    headers |-> Headers(cfg, args),
    body |-> IF args.data # None THEN Some(JsonStringify(args.data[1])) ELSE None ]

\* Variant of Submit: the body goes with the first attempt only.
Submit_BodyOnce(previous, cfg, args) ==
  Append(previous, IF previous = << >> THEN FetchArguments(cfg, args)
                   ELSE [FetchArguments(cfg, args) EXCEPT !.body = None])

\* An iteration of the loop calls fetchFn with the url and headers made
\* before the loop and the method and data of the call.
Submit(previous, cfg, args) == Append(previous, FetchArguments(cfg, args))

\* new URL(`${baseUrl}${endpoint}`), called without a base: the text parses
\* only if it starts with a scheme; otherwise the constructor throws.
ParsesAsUrl(u) == u.scheme # ""
InvalidUrlError == [name |-> "TypeError", message |-> "Invalid URL"]

TimeoutError(timeout) ==
  NetworkError("Request timeout after " \o ToString(timeout) \o "ms")

\* `Request failed: ${e?.message || String(e)}`
FailedError(e) ==
  NetworkError("Request failed: " \o (IF TruthyStr(e.message) THEN e.message[1] ELSE e.str))

\* Variant of FetchFailure: an aborted fetch is reported as a failed one.
FetchFailure_NoAbort(fetchError, timeout) == FailedError(fetchError)

\* The inner catch: the NetworkError made from what fetch rejected with.
FetchFailure(fetchError, timeout) ==
  IF fetchError.name = "AbortError" THEN TimeoutError(timeout)
  ELSE FailedError(fetchError)

\* Variant of CatchError: a NetworkError is wrapped again.
CatchError_Rewrap(error, timeout) ==
  IF error.name = "AbortError" THEN TimeoutError(timeout)
  ELSE NetworkError("Request failed: " \o error.message)

\* The outer catch, for an error that is not an AnchorAPIError: the value
\* assigned to lastError.
CatchError(error, timeout) ==
  IF error.name = "AbortError" THEN TimeoutError(timeout)
  ELSE IF error.name # "NetworkError" THEN FailedError(error)
  ELSE error

\* Variant of ParseBody: text that is not JSON is dropped.
ParseBody_DropRaw(t) ==
  IF t.kind = "json" THEN t.value ELSE EmptyObject

\* Variant of ParseBody: an empty body is treated as text that is not JSON.
ParseBody_EmptyAsText(t) ==
  IF t.kind = "json" THEN t.value
  ELSE IF t.kind = "raw" THEN [EmptyObject EXCEPT !.error = Some(t.text)]
  ELSE IF t.kind = "empty" THEN [EmptyObject EXCEPT !.error = Some("")]
  ELSE EmptyObject

\* Variant of ParseBody: a body that cannot be read is reported in the
\* error field.
ParseBody_ReadErrorAsText(t) ==
  IF t.kind = "json" THEN t.value
  ELSE IF t.kind = "raw" THEN [EmptyObject EXCEPT !.error = Some(t.text)]
  ELSE IF t.kind = "throws" THEN [EmptyObject EXCEPT !.error = Some("body stream failed")]
  ELSE EmptyObject

\* responseData as computed from the outcome of response.text()
ParseBody(t) ==
  IF t.kind = "json" THEN t.value
  ELSE IF t.kind = "raw" THEN [EmptyObject EXCEPT !.error = Some(t.text)]
  ELSE EmptyObject

\* Variant of Succeeded: every status below 400 is taken as success.
Succeeded_Below400(resp) == resp.status < 400

\* if (response.ok) return responseData
Succeeded(resp) == resp.ok

\* response.status || 500
StatusCode(status) == IF status = 0 THEN DefaultStatus ELSE status

\* Variant of IsClientError: status 400 is left out of the range.
IsClientError_Above400(statusCode) ==
  statusCode > 400 /\ statusCode < 500 /\ statusCode # 429

\* statusCode >= 400 && statusCode < 500 && statusCode !== 429
IsClientError(statusCode) ==
  statusCode >= 400 /\ statusCode < 500 /\ statusCode # 429

\* Variant of CanRetry: one retry too many.
CanRetry_Inclusive(attempt, retryAttempts) == attempt <= retryAttempts

\* attempt < retryAttempts
CanRetry(attempt, retryAttempts) == attempt < retryAttempts

\* Variant of BackoffDelay: linear backoff.
BackoffDelay_Linear(retryDelay, attempt) == retryDelay * (attempt + 1)

\* retryDelay * Math.pow(2, attempt)
BackoffDelay(retryDelay, attempt) == retryDelay * (2 ^ attempt)

\* How an attempt ended, as the retry policy sees it: fetch rejected, or a
\* Response of some class of status.
Rejected == "net"
Answered(status) ==
  IF IsOk(status) THEN "2xx"
  ELSE IF status = 429 THEN "429"
  ELSE IF status >= 500 THEN "5xx"
  ELSE IF status >= 400 THEN "4xx"
  ELSE "3xx"

\* Variant of RecordFailure: the first failure of the call is kept.
RecordFailure_KeepFirst(previous, error) ==
  IF previous = None THEN Some(error) ELSE previous

\* lastError = new NetworkError(...): the new value of lastError
RecordFailure(previous, error) == Some(error)

\* After the loop: if (lastError) throw lastError; throw new NetworkError(...)
ThrownAfterLoop(last) ==
  IF last # None THEN last[1] ELSE NetworkError("Request failed after retries")

VARIABLES
  config,        \* this.config, set by the constructor
  pc,            \* where the call is: idle, fetch, text, sleep, returned, thrown
  attempt,       \* loop variable of request
  lastError,     \* lastError of request
  fetchError,    \* what fetchFn rejected with in the current attempt
  response,      \* the Response of the current attempt
  text,          \* what response.text() settled with in the current attempt
  responseData,  \* responseData of the current attempt
  timerArmed,    \* the abort timer of the current attempt is pending
  fetchCalls,    \* number of fetchFn calls of the current logical call
  sleeps,        \* durations passed to sleep by the current logical call
  trace,         \* per attempt made, how fetch settled: Rejected or Answered(status)
  result,        \* the value returned or the error thrown
  arguments,     \* method, endpoint, data and params of the current logical call
  sent           \* what fetchFn was called with, per attempt

callVars == << config, pc, attempt, lastError, fetchError, response, text,
               responseData, timerArmed, fetchCalls, sleeps, trace, result,
               arguments, sent >>

\* An Anchor client, its configuration objects and who holds them.
VARIABLES
  env,           \* process.env.ANCHOR_API_KEY
  heap,          \* the objects: "options" (the caller's), "normalized"
  anchorConfig,  \* Anchor._config: the object it refers to
  httpConfig,    \* HttpClient.config: the object it refers to
  built,         \* the settings in force when the constructor returned
  used           \* the settings read by the latest call

clientVars == << env, heap, anchorConfig, httpConfig, built, used >>

\* Two logical calls in progress on one HttpClient.
VARIABLES
  pairConfig,    \* this.config of the client both calls are made on
  frames,        \* the activation records of request: pc, attempt, lastError, response
  seen,          \* per call, how its attempts were settled by the transport
  made,          \* per call, the number of fetchFn calls it made
  slept,         \* per call, the durations it passed to sleep
  ended,         \* per call, the value returned or the error thrown
  overlapped     \* a step was taken while the other call was in progress

pairVars == << pairConfig, frames, seen, made, slept, ended, overlapped >>

\* One call of a namespace method.
VARIABLES
  facadeOp,      \* the method invoked, as "namespace.method"
  answer,        \* the last response of the pipeline: status and parsed body
  raised,        \* what the this.http call threw
  outcome        \* what the method returned or threw

facadeVars == << facadeOp, answer, raised, outcome >>

\* One call of add or update on an AnchorMem0.
VARIABLES
  wrapCall,      \* the method called and its arguments
  wrapPc,        \* idle, write (awaiting data.write), mem0, returned, thrown
  writes,        \* the data.write calls made by the current call
  verdict,       \* the WriteResult data.write returned
  writeError,    \* what data.write threw
  mem0Calls,     \* the calls made on the wrapped Mem0 client
  wrapResult     \* what the method returned or threw

mem0Vars == << wrapCall, wrapPc, writes, verdict, writeError, mem0Calls, wrapResult >>

\* An AnchorCrewAgent or AnchorCrewMemory and the operations in progress on it.
VARIABLES
  crewClass,     \* which of the two classes the object is
  agentId,       \* this._agentId
  supplied,      \* an agentId was given to the constructor
  crewOps,       \* per operation: its method and where it is
  creates,       \* the agents.create requests issued, by operation
  issued,        \* the ids the server has given out
  dataCalls,     \* the data requests issued, with the agent id they name
  started        \* number of operations invoked so far

crewVars == << crewClass, agentId, supplied, crewOps, creates, issued, dataCalls,
               started >>

integrationVars == << mem0Vars, crewVars >>

\* No logical call / no client under observation.
CallParked ==
  /\ config = [ timeout |-> None, retryAttempts |-> None, retryDelay |-> None,
                baseUrl |-> None, apiKey |-> None ]
  /\ arguments = None /\ sent = << >>
  /\ pc = "idle" /\ attempt = 0 /\ lastError = None /\ fetchError = None
  /\ response = None /\ text = None /\ responseData = None
  /\ timerArmed = FALSE /\ fetchCalls = 0 /\ sleeps = << >>
  /\ trace = << >> /\ result = None

ClientParked ==
  /\ env = None /\ heap = << >> /\ anchorConfig = None /\ httpConfig = None
  /\ built = None /\ used = None

PairParked ==
  /\ pairConfig = None /\ frames = << >> /\ seen = << >> /\ made = << >>
  /\ slept = << >> /\ ended = << >> /\ overlapped = FALSE

FacadeParked ==
  /\ facadeOp = None /\ answer = None /\ raised = None /\ outcome = None

Mem0Parked ==
  /\ wrapCall = None /\ wrapPc = "idle" /\ writes = << >> /\ verdict = None
  /\ writeError = None /\ mem0Calls = << >> /\ wrapResult = None

CrewParked ==
  /\ crewClass = "" /\ agentId = "" /\ supplied = FALSE /\ crewOps = << >>
  /\ creates = << >> /\ issued = 0 /\ dataCalls = << >> /\ started = 0

IntegrationsParked == Mem0Parked /\ CrewParked

vars == << callVars, clientVars, pairVars, facadeVars, integrationVars >>

\* What the steps of each part leave alone.
outsideCall == << clientVars, pairVars, facadeVars, integrationVars >>
outsideClient == << callVars, pairVars, facadeVars, integrationVars >>
outsidePair == << callVars, clientVars, facadeVars, integrationVars >>
outsideFacade == << callVars, clientVars, pairVars, integrationVars >>
outsideMem0 == << callVars, clientVars, pairVars, facadeVars, crewVars >>
outsideCrew == << callVars, clientVars, pairVars, facadeVars, mem0Vars >>

\* new HttpClient(config)
Init ==
  /\ config \in Configs
  /\ pc = "idle"
  /\ attempt = 0
  /\ lastError = None
  /\ fetchError = None
  /\ response = None
  /\ text = None
  /\ responseData = None
  /\ timerArmed = FALSE
  /\ fetchCalls = 0
  /\ sleeps = << >>
  /\ trace = << >>
  /\ result = None
  /\ arguments = None
  /\ sent = << >>
  /\ ClientParked
  /\ PairParked
  /\ FacadeParked
  /\ IntegrationsParked

\* request(): from the call to the first await fetchFn(...)
Request(args) ==
  /\ pc \in {"idle", "returned", "thrown"}
  /\ arguments' = Some(args)
  /\ sent' = IF ParsesAsUrl(BaseUrl(config))
              THEN Submit(<< >>, config, args) ELSE << >>
  /\ attempt' = 0
  /\ lastError' = None
  /\ fetchError' = None
  /\ response' = None
  /\ text' = None
  /\ responseData' = None
  /\ sleeps' = << >>
  /\ trace' = << >>
  /\ IF ParsesAsUrl(BaseUrl(config))
       THEN /\ pc' = "fetch"
            /\ timerArmed' = TRUE
            /\ fetchCalls' = 1
            /\ result' = None
       ELSE \* new URL throws before the loop is entered
            /\ pc' = "thrown"
            /\ timerArmed' = FALSE
            /\ fetchCalls' = 0
            /\ result' = Some(InvalidUrlError)
  /\ UNCHANGED << config, outsideCall >>

\* await fetchFn(...) rejects: the inner catch, and for the last attempt the
\* outer catch and the throw after the loop.
FetchRejects(e) ==
  /\ pc = "fetch"
  /\ e.name = "AbortError" => timerArmed
  /\ fetchError' = Some(e)
  /\ timerArmed' = FALSE
  /\ trace' = Append(trace, Rejected)
  /\ LET assigned == RecordFailure(lastError, FetchFailure(e, Timeout(config))) IN
     IF CanRetry(attempt, RetryAttempts(config))
       THEN /\ lastError' = assigned
            /\ sleeps' = Append(sleeps, BackoffDelay(RetryDelay(config), attempt))
            /\ pc' = "sleep"
            /\ UNCHANGED result
       ELSE \* throw lastError; caught by the outer catch; the loop ends
            LET caught == Some(CatchError(assigned[1], Timeout(config))) IN
            /\ lastError' = caught
            /\ result' = Some(ThrownAfterLoop(caught))
            /\ pc' = "thrown"
            /\ UNCHANGED sleeps
  /\ UNCHANGED << config, attempt, response, text, responseData, fetchCalls,
                  arguments, sent, outsideCall >>

\* await fetchFn(...) resolves with a Response; the timer is cleared.
FetchResolves(status) ==
  /\ pc = "fetch"
  /\ response' = Some([ok |-> IsOk(status), status |-> status])
  /\ timerArmed' = FALSE
  /\ trace' = Append(trace, Answered(status))
  /\ pc' = "text"
  /\ UNCHANGED << config, attempt, lastError, fetchError, text, responseData,
                  fetchCalls, sleeps, result, arguments, sent, outsideCall >>

\* await response.text() settles: parse, then return, throw or back off.
TextSettles(t) ==
  /\ pc = "text"
  /\ text' = Some(t)
  /\ LET data == ParseBody(t)
         statusCode == StatusCode(response[1].status)
     IN
     /\ responseData' = Some(data)
     /\ IF Succeeded(response[1])
          THEN /\ result' = Some(data)
               /\ pc' = "returned"
               /\ UNCHANGED sleeps
        ELSE IF IsClientError(statusCode)
          THEN /\ result' = Some(handleError(statusCode, data))
               /\ pc' = "thrown"
               /\ UNCHANGED sleeps
        ELSE IF CanRetry(attempt, RetryAttempts(config))
          THEN /\ sleeps' = Append(sleeps, BackoffDelay(RetryDelay(config), attempt))
               /\ pc' = "sleep"
               /\ UNCHANGED result
        ELSE /\ result' = Some(handleError(statusCode, data))
             /\ pc' = "thrown"
             /\ UNCHANGED sleeps
  /\ UNCHANGED << config, attempt, lastError, fetchError, response, timerArmed,
                  fetchCalls, trace, arguments, sent, outsideCall >>

\* await this.sleep(...) resolves: continue, attempt++, next await fetchFn(...)
SleepResolves ==
  /\ pc = "sleep"
  /\ attempt' = attempt + 1
  /\ fetchError' = None
  /\ response' = None
  /\ text' = None
  /\ responseData' = None
  /\ timerArmed' = TRUE
  /\ fetchCalls' = fetchCalls + 1
  /\ pc' = "fetch"
  /\ sent' = Submit(sent, config, arguments[1])
  /\ UNCHANGED << config, lastError, sleeps, trace, result, arguments, outsideCall >>

Next ==
  \/ Request(PlainGet)
  \/ \E e \in FetchErrors : FetchRejects(e)
  \/ \E s \in Statuses : FetchResolves(s)
  \/ \E t \in Texts : TextSettles(t)
  \/ SleepResolves

Spec == Init /\ [][Next]_vars

\* The same client called with each kind of argument, its requests observed
\* on the wire.
WireInit ==
  /\ config \in KeyedConfigs
  /\ pc = "idle" /\ attempt = 0 /\ lastError = None /\ fetchError = None
  /\ response = None /\ text = None /\ responseData = None
  /\ timerArmed = FALSE /\ fetchCalls = 0 /\ sleeps = << >>
  /\ trace = << >> /\ result = None /\ arguments = None /\ sent = << >>
  /\ ClientParked
  /\ PairParked
  /\ FacadeParked
  /\ IntegrationsParked

WireNext ==
  \/ \E args \in RequestArguments : Request(args)
  \/ \E e \in FetchErrors : FetchRejects(e)
  \/ \E s \in Statuses : FetchResolves(s)
  \/ \E t \in Texts : TextSettles(t)
  \/ SleepResolves

WireSpec == WireInit /\ [][WireNext]_vars

TypeOK ==
  /\ config \in Configs \cup KeyedConfigs
  /\ pc \in {"idle", "fetch", "text", "sleep", "returned", "thrown"}
  /\ attempt \in 0..(MaxRetryAttempts + DefaultRetryAttempts)
  /\ fetchCalls = Len(trace) + (IF pc = "fetch" THEN 1 ELSE 0)
  /\ \A i \in DOMAIN trace : trace[i] \in {"net", "2xx", "3xx", "4xx", "429", "5xx"}

(***************************************************************************)
(* Observations on the current logical call.                               *)
(***************************************************************************)
\* The call has ended by throwing; Thrown is the error.
HasThrown == pc = "thrown"
Thrown == result[1]

\* The current attempt ended with fetch rejecting / with a settled response.
AttemptRejected == fetchError # None
AttemptAnswered == response # None /\ text # None

\* Attempts were made, and all of them failed at transport level.
AllTransport == trace # << >> /\ \A i \in DOMAIN trace : trace[i] = "net"

\* The attempt budget of the call, 1 + retryAttempts.
Budget ==
  1 + (IF config.retryAttempts = None THEN 3 ELSE config.retryAttempts[1])

\* The status code of the answered attempt.
AnsweredStatus == response[1].status

\* The parsed body of the answered attempt, by the rule of the response
\* envelope: {} for an empty or unreadable body, { error: text } for text
\* that is not JSON, the object itself otherwise.
AnsweredBody ==
  IF text[1].kind = "json" THEN text[1].value
  ELSE IF text[1].kind = "raw"
    THEN [ message |-> None, error |-> Some(text[1].text), blocked_by |-> None,
           policy_name |-> None, field |-> None, required_permission |-> None,
           retry_after |-> None, result |-> None ]
  ELSE [ message |-> None, error |-> None, blocked_by |-> None,
         policy_name |-> None, field |-> None, required_permission |-> None,
         retry_after |-> None, result |-> None ]

\* Attempts were made, and every one failed in a way the retry policy lists
\* as retryable: transport failure, timeout, HTTP 429 or HTTP >= 500.
AllFailedRetryably ==
  trace # << >> /\ \A i \in DOMAIN trace : trace[i] \in {"net", "429", "5xx"}

(***************************************************************************)
(* C1: a logical call never performs more than retryAttempts + 1 transport *)
(* attempts; a call whose every attempt fails retryably (transport         *)
(* failure, timeout, 429 or >= 500) goes on until it has performed exactly *)
(* retryAttempts + 1 attempts and then throws; and when all attempts       *)
(* failed at transport level the error thrown is a NetworkError.           *)
(***************************************************************************)
C1_AttemptBudget ==
  /\ fetchCalls <= Budget
  /\ AllFailedRetryably =>
        /\ pc # "returned"
        /\ HasThrown => Len(trace) = Budget
        /\ (Len(trace) = Budget /\ pc # "text") => HasThrown
  /\ (HasThrown /\ AllTransport) =>
        /\ fetchCalls = Budget
        /\ Thrown.name = "NetworkError"
        /\ Thrown.code = "network_error"

\* Default budget: four rejected fetches, then a NetworkError.
C1_Witness ==
  /\ config.retryAttempts = None
  /\ HasThrown
  /\ trace = << "net", "net", "net", "net" >>
  /\ fetchCalls = 4
  /\ Thrown.name = "NetworkError"

(***************************************************************************)
(* C2: a response with a 4xx status other than 429 ends the call on the    *)
(* attempt that receives it: the step that settles the response throws the *)
(* classified error, takes no backoff sleep and makes no further fetch     *)
(* call, whatever budget remains.                                          *)
(***************************************************************************)
ClientErrorPending ==
  /\ pc = "text"
  /\ response[1].status >= 400 /\ response[1].status <= 499
  /\ response[1].status # 429

C2_ClientErrorTerminal ==
  [][ ClientErrorPending =>
        /\ pc' = "thrown"
        /\ result' = Some(handleError(response[1].status, responseData'[1]))
        /\ result'[1].statusCode = response[1].status
        /\ sleeps' = sleeps
        /\ fetchCalls' = fetchCalls
        /\ attempt' = attempt
        /\ (attempt = 0 => fetchCalls' = 1 /\ sleeps' = << >>) ]_vars

\* A first-attempt 404 with two retries left: thrown after one fetch call.
C2_Witness ==
  /\ HasThrown
  /\ AttemptAnswered
  /\ response[1].status = 404
  /\ config.retryAttempts = Some(2)
  /\ fetchCalls = 1
  /\ sleeps = << >>
  /\ Thrown.name = "NotFoundError"

(***************************************************************************)
(* C3: a 2xx response on the attempt that follows a retryable failure      *)
(* (429, >= 500 or transport failure) ends the call: the step that settles *)
(* it returns the parsed body of that response, and no further fetch call  *)
(* and no further sleep is made (the attempts made are the failed ones     *)
(* plus this one, so a 429 or 500 followed by a 200 makes 2 attempts).     *)
(***************************************************************************)
SuccessAfterRetryPending ==
  /\ pc = "text"
  /\ response[1].ok
  /\ Len(trace) >= 2
  /\ trace[Len(trace) - 1] \in {"net", "429", "5xx"}

C3_SuccessAfterRetry ==
  [][ SuccessAfterRetryPending =>
        /\ pc' = "returned"
        /\ text' # None
        /\ result' = Some(AnsweredBody')
        /\ "name" \notin DOMAIN result'[1]
        /\ fetchCalls' = fetchCalls /\ fetchCalls' = attempt + 1
        /\ sleeps' = sleeps /\ Len(sleeps') = attempt ]_vars

\* A 429, then a 200 whose body is returned after two fetch calls.
C3_Witness ==
  /\ pc = "returned"
  /\ trace = << "429", "2xx" >>
  /\ fetchCalls = 2
  /\ Len(sleeps) = 1
  /\ response[1].status = 200
  /\ text[1].kind = "json"
  /\ result = Some(text[1].value)
  /\ result[1].result = Some("success")

(***************************************************************************)
(* C4: for a non-2xx response whose body has no policy indicator, the kind *)
(* of the error thrown is fixed by the status code: 400 ValidationError    *)
(* (with body.field), 401 AuthenticationError, 403 AuthorizationError      *)
(* (with body.required_permission), 404 NotFoundError, 429 RateLimitError  *)
(* (with body.retry_after), >= 500 ServerError, anything else the generic  *)
(* AnchorAPIError; the error carries the status code and the parsed body.  *)
(***************************************************************************)
Present(o) == o # None /\ o # Some("")

PolicyIndicated ==
  Present(AnsweredBody.blocked_by) \/ Present(AnsweredBody.policy_name)

KindOfStatus(s) ==
  CASE s = 400 -> "ValidationError"
    [] s = 401 -> "AuthenticationError"
    [] s = 403 -> "AuthorizationError"
    [] s = 404 -> "NotFoundError"
    [] s = 429 -> "RateLimitError"
    [] s >= 500 -> "ServerError"
    [] OTHER -> "AnchorAPIError"

C4_KindByStatus ==
  (HasThrown /\ AttemptAnswered /\ ~PolicyIndicated) =>
     /\ Thrown.name = KindOfStatus(AnsweredStatus)
     /\ Thrown.statusCode = AnsweredStatus
     /\ Thrown.response = AnsweredBody
     /\ AnsweredStatus = 400 => Thrown.field = AnsweredBody.field
     /\ AnsweredStatus = 403 =>
          Thrown.requiredPermission = AnsweredBody.required_permission
     /\ AnsweredStatus = 429 => Thrown.retryAfter = AnsweredBody.retry_after

\* A 503 answered to every attempt: ServerError carrying 503 and the body.
C4_Witness ==
  /\ HasThrown
  /\ AttemptAnswered
  /\ ~PolicyIndicated
  /\ response[1].status = 503
  /\ text[1].kind = "json"
  /\ Thrown.name = "ServerError"
  /\ Thrown.statusCode = 503
  /\ Thrown.response = text[1].value

(***************************************************************************)
(* C5: when the body of a classified response has a truthy blocked_by or   *)
(* policy_name, the error thrown is a PolicyViolationError whatever the    *)
(* status code, and its policyName is blocked_by when that is truthy and   *)
(* policy_name otherwise.                                                  *)
(***************************************************************************)
C5_PolicyPrecedence ==
  (HasThrown /\ AttemptAnswered /\ PolicyIndicated) =>
     /\ Thrown.name = "PolicyViolationError"
     /\ Thrown.code = "policy_violation"
     /\ Thrown.statusCode = AnsweredStatus
     /\ Thrown.policyName =
          (IF Present(AnsweredBody.blocked_by)
             THEN AnsweredBody.blocked_by[1]
             ELSE AnsweredBody.policy_name[1])

\* Status 400 with blocked_by 'pii_filter' and a field: PolicyViolation.
C5_Witness ==
  /\ HasThrown
  /\ AttemptAnswered
  /\ response[1].status = 400
  /\ text[1].kind = "json"
  /\ text[1].value.blocked_by = Some("pii_filter")
  /\ text[1].value.field = Some("email")
  /\ Thrown.name = "PolicyViolationError"
  /\ Thrown.policyName = "pii_filter"

(***************************************************************************)
(* C6: the i-th backoff sleep of a call (i = 0, 1, 2, ...) lasts exactly   *)
(* retryDelay * 2^i, where retryDelay is the base delay the call uses;     *)
(* every failed attempt that is retried is followed by exactly one sleep,  *)
(* so one sleep separates consecutive attempts, none precedes the first    *)
(* attempt and none follows the attempt that ends the call.                *)
(***************************************************************************)
BaseDelay ==
  IF config.retryDelay = None \/ config.retryDelay = Some(0)
    THEN 1000 ELSE config.retryDelay[1]

C6_ExponentialBackoff ==
  /\ \A i \in 1..Len(sleeps) : sleeps[i] = BaseDelay * (2 ^ (i - 1))
  /\ pc \in {"fetch", "text"} => Len(sleeps) = fetchCalls - 1
  /\ pc = "sleep" => Len(sleeps) = fetchCalls
  /\ (pc \in {"returned", "thrown"} /\ fetchCalls > 0) =>
        Len(sleeps) = fetchCalls - 1
  /\ fetchCalls = 0 => sleeps = << >>
  /\ Len(sleeps) <= Budget - 1

\* Base 100 ms and four failed attempts: sleeps of 100, 200 and 400 ms.
C6_Witness ==
  /\ config.retryDelay = Some(100)
  /\ HasThrown
  /\ fetchCalls = 4
  /\ sleeps = << 100, 200, 400 >>

(***************************************************************************)
(* C7, as stated: when the budget is exhausted the error thrown is the     *)
(* classified error of the most recent response the call received, and a   *)
(* NetworkError only if every attempt failed at transport level.  Stated   *)
(* for the calls whose attempts all failed in the listed retryable ways    *)
(* (transport failure, 429, >= 500), so that the retry of no other status  *)
(* is involved.                                                            *)
(***************************************************************************)
Exhausted == HasThrown /\ fetchCalls = Budget

\* The class of status of the most recent attempt that received a response.
RECURSIVE MostRecentAnswered(_)
MostRecentAnswered(t) ==
  IF t[Len(t)] # "net" THEN t[Len(t)]
  ELSE MostRecentAnswered(SubSeq(t, 1, Len(t) - 1))

C7_MostRecentClassified ==
  (Exhausted /\ AllFailedRetryably) =>
    IF AllTransport
      THEN Thrown.name = "NetworkError"
      ELSE /\ "statusCode" \in DOMAIN Thrown
           /\ Thrown.name # "NetworkError"
           /\ MostRecentAnswered(trace) = "429" => Thrown.statusCode = 429
           /\ MostRecentAnswered(trace) = "5xx" => Thrown.statusCode >= 500

(***************************************************************************)
(* C7, amended: when the budget is exhausted the error thrown is that of   *)
(* the last attempt: the classified error of its response if it received   *)
(* one, and a NetworkError exactly when the last attempt failed at         *)
(* transport level (whatever the earlier attempts received), carrying the  *)
(* message of that last failure.                                           *)
(***************************************************************************)
UsedTimeout ==
  IF config.timeout = None \/ config.timeout = Some(0)
    THEN 30000 ELSE config.timeout[1]

LastFailureMessage ==
  IF fetchError[1].name = "AbortError"
    THEN "Request timeout after " \o ToString(UsedTimeout) \o "ms"
  ELSE IF Present(fetchError[1].message)
    THEN "Request failed: " \o fetchError[1].message[1]
  ELSE "Request failed: " \o fetchError[1].str

C7_LastAttemptDecides ==
  Exhausted =>
    /\ (Thrown.name = "NetworkError") = AttemptRejected
    /\ AttemptRejected =>
          /\ Thrown.code = "network_error"
          /\ Thrown.message = LastFailureMessage
    /\ ~AttemptRejected =>
          /\ AttemptAnswered
          /\ Thrown.statusCode = AnsweredStatus
          /\ Thrown.response = AnsweredBody
          /\ Thrown.name = (IF PolicyIndicated THEN "PolicyViolationError"
                            ELSE KindOfStatus(AnsweredStatus))

\* A response on the first attempt, a connection failure on the last one:
\* NetworkError with the message of that failure.
C7_Witness ==
  /\ Exhausted
  /\ trace = << "5xx", "net" >>
  /\ Thrown.name = "NetworkError"
  /\ Thrown.message = "Request failed: Connection failed"

(***************************************************************************)
(* C8: the error thrown by a call is a function of the outcome of its last *)
(* attempt only.  ErrorOfLastOutcome reads what the last attempt settled   *)
(* with (the rejection of fetch, or the status and the body text) and the  *)
(* configured timeout, and nothing of the earlier attempts: not lastError, *)
(* not the trace, not the attempt number.  Every thrown error equals it,   *)
(* so two calls that end with the same outcome throw equal errors.         *)
(***************************************************************************)
ErrorOfLastOutcome ==
  IF AttemptRejected
    THEN FetchFailure(fetchError[1], UsedTimeout)
    ELSE handleError(AnsweredStatus, AnsweredBody)

C8_LastOutcomeOnly ==
  (HasThrown /\ fetchCalls > 0) => Thrown = ErrorOfLastOutcome

\* A timeout, then a connection failure, then a 429 with retry_after on the
\* last attempt: the RateLimitError of the 429, while lastError still holds
\* the NetworkError of the second attempt.
C8_Witness ==
  /\ HasThrown
  /\ trace = << "net", "net", "429" >>
  /\ lastError # None
  /\ lastError[1].message = "Request failed: Connection failed"
  /\ response[1].status = 429
  /\ Thrown.name = "RateLimitError"
  /\ Thrown.retryAfter = Some(60)

(***************************************************************************)
(* C9: an error response (status >= 400) whose body carries a policy       *)
(* indicator (blocked_by or policy_name) is never retried, whatever the    *)
(* status: the attempt that receives it ends the call with a               *)
(* PolicyViolationError.                                                   *)
(***************************************************************************)
C9_PolicyNeverRetried ==
  (AttemptAnswered /\ response[1].status >= 400 /\ PolicyIndicated) =>
     /\ pc = "thrown"
     /\ Thrown.name = "PolicyViolationError"

(***************************************************************************)
(* C10: a non-2xx response whose status is none of 400, 401, 403, 404,     *)
(* 429 and is below 500, without a policy indicator, is never retried: the *)
(* attempt that receives it ends the call with the generic AnchorAPIError. *)
(***************************************************************************)
GenericStatus(s) ==
  /\ s >= 100 /\ s < 500
  /\ ~(s >= 200 /\ s <= 299)
  /\ s \notin {400, 401, 403, 404, 429}

C10_GenericNeverRetried ==
  (AttemptAnswered /\ GenericStatus(response[1].status) /\ ~PolicyIndicated) =>
     /\ pc = "thrown"
     /\ Thrown.name = "AnchorAPIError"
     /\ Thrown.statusCode = response[1].status

(***************************************************************************)
(* C11: the timeout is per attempt.  The step in which the timer of an     *)
(* attempt aborts the fetch counts that attempt as one transport failure   *)
(* of the call; while budget remains the call is not ended by it (it backs *)
(* off and goes on to the next attempt, which may succeed); and when the   *)
(* attempt that timed out was the last of the budget the call throws a     *)
(* NetworkError whose message is 'Request timeout after <timeout>ms', not  *)
(* 'Request failed: ...'.                                                  *)
(***************************************************************************)
TimerFires == pc = "fetch" /\ fetchError' = Some(AbortError)

TimeoutMessage == "Request timeout after " \o ToString(UsedTimeout) \o "ms"

C11_TimeoutPerAttempt ==
  [][ TimerFires =>
        /\ timerArmed /\ ~timerArmed'
        /\ trace' = Append(trace, "net")
        /\ fetchCalls' = fetchCalls
        /\ IF fetchCalls < Budget
             THEN /\ pc' = "sleep"
                  /\ result' = None
                  /\ Len(sleeps') = Len(sleeps) + 1
                  /\ lastError'[1].name = "NetworkError"
                  /\ lastError'[1].message = TimeoutMessage
             ELSE /\ pc' = "thrown"
                  /\ result'[1].name = "NetworkError"
                  /\ result'[1].message = TimeoutMessage
                  /\ result'[1].message
                       # "Request failed: " \o AbortError.message[1] ]_vars

\* A first attempt that timed out after 50 ms, then a 2xx answer returned.
C11_Witness ==
  /\ pc = "returned"
  /\ trace = << "net", "2xx" >>
  /\ config.timeout = Some(50)
  /\ lastError # None
  /\ lastError[1].message = "Request timeout after 50ms"
  /\ fetchCalls = 2

(***************************************************************************)
(* C14: a response with ok = false never yields a returned value.  The     *)
(* call returns only in the step that settles the body of a response whose *)
(* status is 2xx, which is then the final attempt of the call; a settled   *)
(* response with any other status leads to a throw or a backoff sleep, and *)
(* what a returned call hands on is the body of that 2xx response.         *)
(***************************************************************************)
C14_ReturnOnlyOnOk ==
  /\ pc = "returned" =>
        /\ AttemptAnswered
        /\ response[1].ok
        /\ AnsweredStatus >= 200 /\ AnsweredStatus <= 299
        /\ trace[Len(trace)] = "2xx"
        /\ \A i \in 1..(Len(trace) - 1) : trace[i] # "2xx"
        /\ result = Some(AnsweredBody)
  /\ (AttemptAnswered /\ ~response[1].ok) => pc \in {"thrown", "sleep"}

\* A 302 answered with a JSON body on the only attempt: thrown, not returned.
C14_Witness ==
  /\ HasThrown
  /\ AttemptAnswered
  /\ AnsweredStatus = 302
  /\ text[1].kind = "json"
  /\ Budget = 1

(***************************************************************************)
(* C18: on a 2xx response the call returns the body parsed by a fixed rule *)
(* and never throws: an empty body (or one that cannot be read) gives {},  *)
(* a non-empty body that is not JSON gives { error: <raw text> }, and a    *)
(* JSON body gives the parsed value itself, with every field as it came.   *)
(***************************************************************************)
OkBodySettled == AttemptAnswered /\ response[1].ok

C18_OkBodyRule ==
  OkBodySettled =>
    /\ pc = "returned"
    /\ result # None
    /\ text[1].kind \in {"empty", "throws"} =>
          \A f \in DOMAIN result[1] : result[1][f] = None
    /\ text[1].kind = "raw" =>
          /\ result[1].error = Some(text[1].text)
          /\ \A f \in DOMAIN result[1] \ {"error"} : result[1][f] = None
    /\ text[1].kind = "json" => result[1] = text[1].value

\* A 204 with an empty body on the first attempt returns {}.
C18_Witness ==
  /\ pc = "returned"
  /\ AnsweredStatus = 204
  /\ text = Some([kind |-> "empty"])
  /\ result = Some(EmptyObject)
  /\ fetchCalls = 1

(***************************************************************************)
(* C16: every failure of a logical call is a member of the closed error    *)
(* taxonomy: whatever the configuration and the responses, a call that     *)
(* throws throws a ValidationError, AuthenticationError,                   *)
(* AuthorizationError, NotFoundError, PolicyViolationError,                *)
(* RateLimitError, ServerError, NetworkError or plain AnchorAPIError.      *)
(***************************************************************************)
ErrorKinds ==
  { "ValidationError", "AuthenticationError", "AuthorizationError",
    "NotFoundError", "PolicyViolationError", "RateLimitError", "ServerError",
    "NetworkError", "AnchorAPIError" }

C16_ClosedTaxonomy == HasThrown => Thrown.name \in ErrorKinds

(***************************************************************************)
(* config.ts and anchor.ts: the configuration of an Anchor client.         *)
(***************************************************************************)
\* Regions a client is configured for.
Regions == { "eu" }

\* DEFAULT_CONFIG, for the settings the pipeline consumes
DEFAULT_CONFIG ==
  [ baseUrl |-> Some(DefaultBaseUrl), region |-> None, timeout |-> Some(30000),
    retryAttempts |-> Some(3), retryDelay |-> Some(1000) ]

\* truthiness of an optional URL text
TruthyUrl(o) == o # None /\ o[1] # EmptyUrl

\* baseUrl.replace(/\/$/, '')
StripTrailingSlash(u) == [u EXCEPT !.slash = FALSE]

\* baseUrl.includes('api.getanchor.dev'), for the hosts of the inputs
IncludesAnchorHost(u) ==
  u.authority \in {"api.getanchor.dev"} \cup {r \o ".api.getanchor.dev" : r \in Regions}

\* `https://${region}.api.getanchor.dev`
RegionalUrl(region) ==
  [scheme |-> "https", authority |-> region \o ".api.getanchor.dev", slash |-> FALSE]

\* normalizeConfig(config), with key the value of process.env.ANCHOR_API_KEY:
\* a new object.
normalizeConfig(cfg, key) ==
  LET apiKey == IF TruthyStr(cfg.apiKey) THEN cfg.apiKey[1]
                ELSE IF TruthyStr(key) THEN key[1] ELSE ""
      baseUrl == IF TruthyUrl(cfg.baseUrl) THEN cfg.baseUrl[1]
                 ELSE IF TruthyUrl(DEFAULT_CONFIG.baseUrl) THEN DEFAULT_CONFIG.baseUrl[1]
                 ELSE DefaultBaseUrl
      region == IF TruthyStr(cfg.region) THEN cfg.region ELSE DEFAULT_CONFIG.region
      stripped == IF baseUrl # EmptyUrl THEN StripTrailingSlash(baseUrl) ELSE baseUrl
  IN [ apiKey |-> Some(apiKey),
       baseUrl |-> IF TruthyStr(region) /\ IncludesAnchorHost(stripped)
                     THEN Some(RegionalUrl(region[1])) ELSE Some(stripped),
       region |-> region,
       timeout |-> Some(Coalesce(cfg.timeout, DEFAULT_CONFIG.timeout[1])),
       retryAttempts |-> Some(Coalesce(cfg.retryAttempts, DEFAULT_CONFIG.retryAttempts[1])),
       retryDelay |-> Some(Coalesce(cfg.retryDelay, DEFAULT_CONFIG.retryDelay[1])) ]

\* The options objects passed to new Anchor(options).
OptionsObjects ==
  { [ apiKey |-> k, baseUrl |-> u, region |-> r, timeout |-> None,
      retryAttempts |-> n, retryDelay |-> None ] :
      k \in {None, Some("key_a")},
      u \in {None, Some([scheme |-> "http", authority |-> "localhost:5050", slash |-> TRUE])},
      r \in {None} \cup {Some(x) : x \in Regions},
      n \in {None, Some(MaxRetryAttempts)} }

\* Assignments a holder of an object can make to its fields.
FieldWrites ==
  { << "apiKey", Some("key_b") >>, << "timeout", Some(50) >>,
    << "retryAttempts", Some(0) >>,
    << "baseUrl", Some([scheme |-> "https", authority |-> "proxy.example", slash |-> FALSE]) >> }

\* What request reads from this.config: the X-API-Key header value (absent
\* for an empty key), the base URL, timeout, retryAttempts and retryDelay.
SettingsRead(cfg) ==
  [ apiKey |-> IF TruthyStr(cfg.apiKey) THEN cfg.apiKey ELSE None,
    baseUrl |-> BaseUrl(cfg),
    timeout |-> Timeout(cfg),
    retryAttempts |-> RetryAttempts(cfg),
    retryDelay |-> RetryDelay(cfg) ]

ClientInit ==
  /\ env \in {None, Some("env_key")}
  /\ \E o \in OptionsObjects : heap = [ id \in {"options"} |-> o ]
  /\ anchorConfig = None
  /\ httpConfig = None
  /\ built = None
  /\ used = None
  /\ CallParked
  /\ PairParked
  /\ FacadeParked
  /\ IntegrationsParked

\* new Anchor(options): this._config = normalizeConfig(options);
\* this._http = new HttpClient(this._config)
Construct ==
  /\ anchorConfig = None
  /\ LET fresh == normalizeConfig(heap["options"], env) IN
     /\ heap' = [ id \in {"options", "normalized"} |->
                    IF id = "options" THEN heap["options"] ELSE fresh ]
     /\ built' = Some(SettingsRead(fresh))
  /\ anchorConfig' = Some("normalized")
  /\ httpConfig' = anchorConfig'
  /\ UNCHANGED << env, used, outsideClient >>

\* The caller assigns to a field of the options object it passed.
WriteOptions(w) ==
  /\ anchorConfig # None
  /\ heap' = [heap EXCEPT !["options"][w[1]] = w[2]]
  /\ UNCHANGED << env, anchorConfig, httpConfig, built, used, outsideClient >>

\* The caller assigns to a field of the object anchor.clientConfig returns:
\* the getter returns this._config itself.
WriteClientConfig(w) ==
  /\ anchorConfig # None
  /\ heap' = [heap EXCEPT ![anchorConfig[1]][w[1]] = w[2]]
  /\ UNCHANGED << env, anchorConfig, httpConfig, built, used, outsideClient >>

\* The caller sets process.env.ANCHOR_API_KEY.
SetEnv(k) ==
  /\ anchorConfig # None
  /\ env' = k
  /\ env' # env
  /\ UNCHANGED << heap, anchorConfig, httpConfig, built, used, outsideClient >>

\* A facade call reaches HttpClient.request, which reads this.config.
ClientCall ==
  /\ httpConfig # None
  /\ used' = Some(SettingsRead(heap[httpConfig[1]]))
  /\ UNCHANGED << env, heap, anchorConfig, httpConfig, built, outsideClient >>

ClientNext ==
  \/ Construct
  \/ \E w \in FieldWrites : WriteOptions(w)
  \/ \E w \in FieldWrites : WriteClientConfig(w)
  \/ \E k \in {None, Some("env_key")} : SetEnv(k)
  \/ ClientCall

ClientSpec == ClientInit /\ [][ClientNext]_vars

(***************************************************************************)
(* C13: the configuration the pipeline consumes (API key, base URL,        *)
(* timeout, retry attempts, retry base delay) is fixed at construction:    *)
(* whatever the holder of the client does afterwards, every call reads the *)
(* settings that were in force when the constructor returned.              *)
(***************************************************************************)
C13_ConfigFixed == used # None => used = built

(***************************************************************************)
(* http.ts: two invocations of HttpClient.request on one client.  All the  *)
(* state of request is in its parameters and local variables, so each      *)
(* invocation has an activation record of its own; this.config is shared   *)
(* and only read.                                                          *)
(***************************************************************************)
Calls == {1, 2}

\* Variant of Frame: attempt, lastError and response kept in one place for
\* all invocations.
Frame_Shared(c) == 1

\* The activation record invocation c works on.
Frame(c) == c

\* How the transport settles an attempt: a rejection, or a response with
\* its body.
PairOutcomes ==
  { [kind |-> "rejects", error |-> AbortError],
    [kind |-> "answers", status |-> 200,
     text |-> [kind |-> "json", value |-> [EmptyObject EXCEPT !.result = Some("success")]]],
    [kind |-> "answers", status |-> 404, text |-> [kind |-> "empty"]],
    [kind |-> "answers", status |-> 503, text |-> [kind |-> "raw", text |-> RawText]] }

PairConfigs ==
  { [ timeout |-> Some(50), retryAttempts |-> Some(n), retryDelay |-> Some(100),
      baseUrl |-> None ] : n \in 0..MaxRetryAttempts }

NewFrame == [pc |-> "idle", attempt |-> 0, lastError |-> None, response |-> None]

InProgress(c) == made[c] > 0 /\ ended[c] = None

\* Some other call is in progress while c takes a step.
Overlaps(c) == \E d \in Calls \ {c} : InProgress(d)

PairInit ==
  /\ pairConfig \in PairConfigs
  /\ frames = [c \in Calls |-> NewFrame]
  /\ seen = [c \in Calls |-> << >>]
  /\ made = [c \in Calls |-> 0]
  /\ slept = [c \in Calls |-> << >>]
  /\ ended = [c \in Calls |-> None]
  /\ overlapped = FALSE
  /\ CallParked
  /\ ClientParked
  /\ FacadeParked
  /\ IntegrationsParked

\* request() is invoked: up to the first await fetchFn(...)
PairRequest(c) ==
  /\ made[c] = 0
  /\ frames' = [frames EXCEPT ![Frame(c)] = [NewFrame EXCEPT !.pc = "fetch"]]
  /\ made' = [made EXCEPT ![c] = 1]
  /\ overlapped' = (overlapped \/ Overlaps(c))
  /\ UNCHANGED << pairConfig, seen, slept, ended, outsidePair >>

\* await fetchFn(...) of invocation c rejects
PairFetchRejects(c, o) ==
  /\ InProgress(c)
  /\ o.kind = "rejects"
  /\ frames[Frame(c)].pc = "fetch"
  /\ seen' = [seen EXCEPT ![c] = Append(@, o)]
  /\ overlapped' = (overlapped \/ Overlaps(c))
  /\ LET f == frames[Frame(c)]
         assigned == RecordFailure(f.lastError, FetchFailure(o.error, Timeout(pairConfig)))
     IN
     IF CanRetry(f.attempt, RetryAttempts(pairConfig))
       THEN /\ frames' = [frames EXCEPT ![Frame(c)] =
                            [f EXCEPT !.lastError = assigned, !.pc = "sleep"]]
            /\ slept' = [slept EXCEPT ![c] =
                           Append(@, BackoffDelay(RetryDelay(pairConfig), f.attempt))]
            /\ UNCHANGED ended
       ELSE LET caught == Some(CatchError(assigned[1], Timeout(pairConfig))) IN
            /\ frames' = [frames EXCEPT ![Frame(c)] =
                            [f EXCEPT !.lastError = caught, !.pc = "thrown"]]
            /\ ended' = [ended EXCEPT ![c] =
                           Some([kind |-> "thrown", value |-> ThrownAfterLoop(caught)])]
            /\ UNCHANGED slept
  /\ UNCHANGED << pairConfig, made, outsidePair >>

\* await fetchFn(...) of invocation c resolves
PairFetchResolves(c, o) ==
  /\ InProgress(c)
  /\ o.kind = "answers"
  /\ frames[Frame(c)].pc = "fetch"
  /\ seen' = [seen EXCEPT ![c] = Append(@, o)]
  /\ overlapped' = (overlapped \/ Overlaps(c))
  /\ frames' = [frames EXCEPT ![Frame(c)] =
                  [@ EXCEPT !.pc = "text",
                            !.response = Some([ok |-> IsOk(o.status), status |-> o.status,
                                               text |-> o.text])]]
  /\ UNCHANGED << pairConfig, made, slept, ended, outsidePair >>

\* await response.text() of invocation c settles
PairTextSettles(c) ==
  /\ InProgress(c)
  /\ frames[Frame(c)].pc = "text"
  /\ overlapped' = (overlapped \/ Overlaps(c))
  /\ LET f == frames[Frame(c)]
         data == ParseBody(f.response[1].text)
         statusCode == StatusCode(f.response[1].status)
     IN
     IF Succeeded(f.response[1])
       THEN /\ ended' = [ended EXCEPT ![c] = Some([kind |-> "returned", value |-> data])]
            /\ frames' = [frames EXCEPT ![Frame(c)] = [f EXCEPT !.pc = "returned"]]
            /\ UNCHANGED slept
     ELSE IF IsClientError(statusCode) \/ ~CanRetry(f.attempt, RetryAttempts(pairConfig))
       THEN /\ ended' = [ended EXCEPT ![c] =
                           Some([kind |-> "thrown", value |-> handleError(statusCode, data)])]
            /\ frames' = [frames EXCEPT ![Frame(c)] = [f EXCEPT !.pc = "thrown"]]
            /\ UNCHANGED slept
     ELSE /\ slept' = [slept EXCEPT ![c] =
                         Append(@, BackoffDelay(RetryDelay(pairConfig), f.attempt))]
          /\ frames' = [frames EXCEPT ![Frame(c)] = [f EXCEPT !.pc = "sleep"]]
          /\ UNCHANGED ended
  /\ UNCHANGED << pairConfig, seen, made, outsidePair >>

\* await this.sleep(...) of invocation c resolves; its next fetchFn call
PairSleepResolves(c) ==
  /\ InProgress(c)
  /\ frames[Frame(c)].pc = "sleep"
  /\ overlapped' = (overlapped \/ Overlaps(c))
  /\ frames' = [frames EXCEPT ![Frame(c)] =
                  [@ EXCEPT !.attempt = @ + 1, !.response = None, !.pc = "fetch"]]
  /\ made' = [made EXCEPT ![c] = @ + 1]
  /\ UNCHANGED << pairConfig, seen, slept, ended, outsidePair >>

PairNext ==
  \/ \E c \in Calls : PairRequest(c)
  \/ \E c \in Calls, o \in PairOutcomes : PairFetchRejects(c, o)
  \/ \E c \in Calls, o \in PairOutcomes : PairFetchResolves(c, o)
  \/ \E c \in Calls : PairTextSettles(c)
  \/ \E c \in Calls : PairSleepResolves(c)

PairSpec == PairInit /\ [][PairNext]_vars

(***************************************************************************)
(* C12: concurrent logical calls on one client do not interfere.  Under    *)
(* every interleaving of their attempts and backoff sleeps, the number of  *)
(* attempts of each call, its sleep durations and its result or error are  *)
(* those of a call made alone that is given the same sequence of           *)
(* transport outcomes; and a call in progress always has its next step     *)
(* enabled, whatever the other call is doing.                              *)
(***************************************************************************)
\* A call made alone under cfg whose attempts are settled by outcomes: the
\* attempts it makes, the sleeps it takes and how it ends, following the
\* retry policy from attempt number n (counted from 1) on.
RECURSIVE RunAlone(_, _, _, _)
RunAlone(cfg, outcomes, n, delays) ==
  IF n > Len(outcomes)
    THEN [attempts |-> n, sleeps |-> delays, ended |-> None]
  ELSE
    LET o == outcomes[n]
        budgetLeft == n < 1 + RetryAttempts(cfg)
        next == RunAlone(cfg, outcomes, n + 1,
                         Append(delays, RetryDelay(cfg) * (2 ^ (n - 1))))
        stop(kind, value) ==
          [attempts |-> n, sleeps |-> delays,
           ended |-> Some([kind |-> kind, value |-> value])]
    IN
    IF o.kind = "rejects"
      THEN IF budgetLeft THEN next
           ELSE stop("thrown", FetchFailure(o.error, Timeout(cfg)))
    ELSE IF o.status >= 200 /\ o.status <= 299
      THEN stop("returned", ParseBody(o.text))
    ELSE IF (o.status \in 400..499 /\ o.status # 429) \/ ~budgetLeft
      THEN stop("thrown", handleError(o.status, ParseBody(o.text)))
    ELSE next

\* Some step of call c can be taken.
CallStep(c) ==
  \/ PairRequest(c)
  \/ \E o \in PairOutcomes : PairFetchRejects(c, o)
  \/ \E o \in PairOutcomes : PairFetchResolves(c, o)
  \/ PairTextSettles(c)
  \/ PairSleepResolves(c)

C12_NoInterference ==
  \A c \in Calls :
    /\ ended[c] # None =>
          [attempts |-> made[c], sleeps |-> slept[c], ended |-> ended[c]]
            = RunAlone(pairConfig, seen[c], 1, << >>)
    /\ made[c] <= 1 + RetryAttempts(pairConfig)
    /\ Len(slept[c]) <= made[c]
    /\ ended[c] = None => ENABLED CallStep(c)

\* Both calls ran while the other was in progress: one used its three
\* attempts and threw after sleeping 100 and 200 ms, the other returned
\* on its second attempt after sleeping 100 ms.
C12_Witness ==
  /\ overlapped
  /\ ended[1] # None /\ ended[1][1].kind = "thrown"
  /\ made[1] = 3 /\ slept[1] = << 100, 200 >>
  /\ ended[2] # None /\ ended[2][1].kind = "returned"
  /\ made[2] = 2 /\ slept[2] = << 100 >>

(***************************************************************************)
(* namespaces: the parse functions that turn wire payloads into entities.  *)
(* A wire payload is a record of optional values (None: the field is       *)
(* missing); in an entity a required field holds a value and an optional   *)
(* field an optional value.  A mapping (metadata, config) is a set of      *)
(* key/value pairs, {} being the empty set.                                *)
(***************************************************************************)
\* a || d for strings, a || false for booleans, a || d for mappings
OrStr(o, d) == IF TruthyStr(o) THEN o[1] ELSE d
OrFalse(o) == o = Some(TRUE)
OrMapping(o, d) == IF o = None THEN d ELSE o[1]

\* Timestamp texts on the wire: ISO-8601 instants (the third is the first
\* written with an offset), and text that is not a date.
IsoTexts ==
  { "2024-01-15T10:30:00Z", "2024-06-01T00:00:00Z", "2024-01-15T11:30:00+01:00" }
MalformedTexts == { "not-a-date" }

\* new Date(text): the instant (in seconds since the epoch) for ISO text,
\* the Invalid Date otherwise.
InvalidDate == [valid |-> FALSE, time |-> 0]
NewDate(w) ==
  IF w \in {"2024-01-15T10:30:00Z", "2024-01-15T11:30:00+01:00"}
    THEN [valid |-> TRUE, time |-> 1705314600]
  ELSE IF w = "2024-06-01T00:00:00Z" THEN [valid |-> TRUE, time |-> 1717200000]
  ELSE InvalidDate

\* data.x_at ? new Date(data.x_at) : undefined
DateOrAbsent(o) == IF TruthyStr(o) THEN Some(NewDate(o[1])) ELSE None

\* Variant of parseAgent: a missing status is left empty.
parseAgent_NoStatus(data) ==
  [ id |-> IF TruthyStr(data.id) THEN data.id[1] ELSE OrStr(data.agent_id, ""),
    name |-> OrStr(data.name, ""),
    status |-> OrStr(data.status, ""),
    metadata |-> IF data.metadata # None THEN data.metadata[1]
                 ELSE OrMapping(data.config, {}),
    configVersion |-> data.config_version,
    dataCount |-> data.data_count,
    checkpointCount |-> data.checkpoint_count,
    createdAt |-> DateOrAbsent(data.created_at),
    updatedAt |-> DateOrAbsent(data.updated_at) ]

parseAgent(data) ==
  [ id |-> IF TruthyStr(data.id) THEN data.id[1] ELSE OrStr(data.agent_id, ""),
    name |-> OrStr(data.name, ""),
    status |-> OrStr(data.status, "active"),
    metadata |-> IF data.metadata # None THEN data.metadata[1]
                 ELSE OrMapping(data.config, {}),
    configVersion |-> data.config_version,
    dataCount |-> data.data_count,
    checkpointCount |-> data.checkpoint_count,
    createdAt |-> DateOrAbsent(data.created_at),
    updatedAt |-> DateOrAbsent(data.updated_at) ]

parseConfig(data) ==
  [ agentId |-> OrStr(data.agent_id, ""),
    version |-> OrStr(data.version, ""),
    config |-> OrMapping(data.config, {}),
    previousVersion |-> data.previous_version,
    createdAt |-> DateOrAbsent(data.created_at),
    createdBy |-> data.created_by,
    auditId |-> data.audit_id ]

parseConfigVersion(data) ==
  [ version |-> OrStr(data.version, ""),
    createdAt |-> DateOrAbsent(data.created_at),
    createdBy |-> data.created_by,
    summary |-> data.summary ]

\* Variant of parseWriteResult: allowed is the truthiness of data.allowed.
parseWriteResult_Truthy(data) ==
  [ key |-> OrStr(data.key, ""),
    allowed |-> OrFalse(data.allowed),
    auditId |-> OrStr(data.audit_id, ""),
    blockedBy |-> data.blocked_by,
    reason |-> data.reason,
    expiresAt |-> DateOrAbsent(data.expires_at),
    createdAt |-> DateOrAbsent(data.created_at) ]

parseWriteResult(data) ==
  [ key |-> OrStr(data.key, ""),
    allowed |-> data.allowed # Some(FALSE),
    auditId |-> OrStr(data.audit_id, ""),
    blockedBy |-> data.blocked_by,
    reason |-> data.reason,
    expiresAt |-> DateOrAbsent(data.expires_at),
    createdAt |-> DateOrAbsent(data.created_at) ]

parseDataEntry(data) ==
  [ key |-> OrStr(data.key, ""),
    value |-> OrStr(data.value, ""),
    metadata |-> OrMapping(data.metadata, {}),
    createdAt |-> DateOrAbsent(data.created_at),
    updatedAt |-> DateOrAbsent(data.updated_at),
    expiresAt |-> DateOrAbsent(data.expires_at),
    auditId |-> OrStr(data.audit_id, "") ]

parseSearchResult(data) ==
  [ key |-> OrStr(data.key, ""),
    value |-> OrStr(data.value, ""),
    similarity |-> OrNum(data.similarity, 0),
    metadata |-> OrMapping(data.metadata, {}) ]

parseDataSnapshot(data) ==
  [ keyCount |-> OrNum(data.key_count, 0),
    totalSizeBytes |-> OrNum(data.total_size_bytes, 0) ]

\* {} as the argument of parseDataSnapshot
EmptySnapshotWire == [key_count |-> None, total_size_bytes |-> None]

parseCheckpoint(data) ==
  [ id |-> OrStr(data.id, ""),
    agentId |-> OrStr(data.agent_id, ""),
    label |-> data.label,
    description |-> data.description,
    configVersion |-> OrStr(data.config_version, ""),
    dataSnapshot |-> parseDataSnapshot(OrMapping(data.data_snapshot, EmptySnapshotWire)),
    createdAt |-> DateOrAbsent(data.created_at),
    auditId |-> data.audit_id ]

\* Variant of parseRestoreResult: the two key counts change places.
parseRestoreResult_Swapped(data) ==
  [ restoredFrom |-> OrStr(data.restored_from, ""),
    configRestored |-> OrFalse(data.config_restored),
    configVersion |-> data.config_version,
    dataRestored |-> OrFalse(data.data_restored),
    dataKeysRestored |-> OrNum(data.data_keys_removed, 0),
    dataKeysRemoved |-> OrNum(data.data_keys_restored, 0),
    auditId |-> OrStr(data.audit_id, ""),
    restoredAt |-> DateOrAbsent(data.restored_at) ]

parseRestoreResult(data) ==
  [ restoredFrom |-> OrStr(data.restored_from, ""),
    configRestored |-> OrFalse(data.config_restored),
    configVersion |-> data.config_version,
    dataRestored |-> OrFalse(data.data_restored),
    dataKeysRestored |-> OrNum(data.data_keys_restored, 0),
    dataKeysRemoved |-> OrNum(data.data_keys_removed, 0),
    auditId |-> OrStr(data.audit_id, ""),
    restoredAt |-> DateOrAbsent(data.restored_at) ]

parseAuditEvent(data) ==
  [ id |-> OrStr(data.id, ""),
    agentId |-> OrStr(data.agent_id, ""),
    operation |-> OrStr(data.operation, ""),
    resource |-> OrStr(data.resource, ""),
    result |-> OrStr(data.result, "allowed"),
    blockedBy |-> data.blocked_by,
    timestamp |-> DateOrAbsent(data.timestamp),
    hash |-> OrStr(data.hash, ""),
    previousHash |-> data.previous_hash,
    metadata |-> OrMapping(data.metadata, {}) ]

parseVerification(data) ==
  [ valid |-> OrFalse(data.valid),
    eventsChecked |-> OrNum(data.events_checked, 0),
    chainStart |-> data.chain_start,
    chainEnd |-> data.chain_end,
    verifiedAt |-> DateOrAbsent(data.verified_at),
    firstInvalid |-> data.first_invalid ]

\* Variant of parseExportResult: a missing verification becomes the
\* verification made from {}.
parseExportResult_DefaultVerification(data) ==
  [ exportId |-> OrStr(data.export_id, ""),
    format |-> OrStr(data.format, "json"),
    downloadUrl |-> OrStr(data.download_url, ""),
    expiresAt |-> DateOrAbsent(data.expires_at),
    eventCount |-> OrNum(data.event_count, 0),
    verification |-> IF data.verification # None
                       THEN Some(parseVerification(data.verification[1]))
                       ELSE Some(parseVerification(
                              [ valid |-> None, events_checked |-> None,
                                chain_start |-> None, chain_end |-> None,
                                verified_at |-> None, first_invalid |-> None ])) ]

parseExportResult(data) ==
  [ exportId |-> OrStr(data.export_id, ""),
    format |-> OrStr(data.format, "json"),
    downloadUrl |-> OrStr(data.download_url, ""),
    expiresAt |-> DateOrAbsent(data.expires_at),
    eventCount |-> OrNum(data.event_count, 0),
    verification |-> IF data.verification # None
                       THEN Some(parseVerification(data.verification[1]))
                       ELSE None ]

(***************************************************************************)
(* Wire payloads: for each entity one payload with every field populated,  *)
(* and the payloads derived from it by leaving fields out or by giving a   *)
(* timestamp field text that is not a date.                                *)
(***************************************************************************)
SomeMapping == { << "team", "ops" >> }

FullAgentWire ==
  [ id |-> Some("agent_1"), agent_id |-> Some("agent_1"), name |-> Some("helper"),
    status |-> Some("suspended"), metadata |-> Some(SomeMapping),
    config |-> Some({ << "model", "m1" >> }), config_version |-> Some("v3"),
    data_count |-> Some(7), checkpoint_count |-> Some(2),
    created_at |-> Some("2024-01-15T10:30:00Z"),
    updated_at |-> Some("2024-06-01T00:00:00Z") ]

FullConfigWire ==
  [ agent_id |-> Some("agent_1"), version |-> Some("v3"),
    config |-> Some({ << "model", "m1" >> }), previous_version |-> Some("v2"),
    created_at |-> Some("2024-01-15T10:30:00Z"), created_by |-> Some("alice"),
    audit_id |-> Some("audit_1") ]

FullConfigVersionWire ==
  [ version |-> Some("v3"), created_at |-> Some("2024-01-15T10:30:00Z"),
    created_by |-> Some("alice"), summary |-> Some("raise limits") ]

\* A write the server reports as blocked.
FullWriteWire ==
  [ key |-> Some("user:123:email"), allowed |-> Some(FALSE),
    audit_id |-> Some("audit_456"), blocked_by |-> Some("pii_filter"),
    reason |-> Some("Email addresses are blocked"),
    expires_at |-> Some("2024-06-01T00:00:00Z"),
    created_at |-> Some("2024-01-15T10:30:00Z") ]

FullDataEntryWire ==
  [ key |-> Some("user:123:preference"), value |-> Some("dark_mode"),
    metadata |-> Some(SomeMapping), created_at |-> Some("2024-01-15T10:30:00Z"),
    updated_at |-> Some("2024-06-01T00:00:00Z"),
    expires_at |-> Some("2024-06-01T00:00:00Z"), audit_id |-> Some("audit_1") ]

FullSearchResultWire ==
  [ key |-> Some("user:123:preference"), value |-> Some("dark_mode"),
    similarity |-> Some(1), metadata |-> Some(SomeMapping) ]

FullSnapshotWire == [key_count |-> Some(12), total_size_bytes |-> Some(2048)]

FullCheckpointWire ==
  [ id |-> Some("cp_1"), agent_id |-> Some("agent_1"), label |-> Some("pre-migration"),
    description |-> Some("before the move"), config_version |-> Some("v3"),
    data_snapshot |-> Some(FullSnapshotWire),
    created_at |-> Some("2024-01-15T10:30:00Z"), audit_id |-> Some("audit_1") ]

FullRestoreWire ==
  [ restored_from |-> Some("cp_1"), config_restored |-> Some(TRUE),
    config_version |-> Some("v3"), data_restored |-> Some(TRUE),
    data_keys_restored |-> Some(12), data_keys_removed |-> Some(3),
    audit_id |-> Some("audit_1"), restored_at |-> Some("2024-06-01T00:00:00Z") ]

FullAuditEventWire ==
  [ id |-> Some("evt_1"), agent_id |-> Some("agent_1"), operation |-> Some("data.write"),
    resource |-> Some("user:123:email"), result |-> Some("blocked"),
    blocked_by |-> Some("pii_filter"), timestamp |-> Some("2024-01-15T10:30:00Z"),
    hash |-> Some("h2"), previous_hash |-> Some("h1"), metadata |-> Some(SomeMapping) ]

FullVerificationWire ==
  [ valid |-> Some(TRUE), events_checked |-> Some(42), chain_start |-> Some("h1"),
    chain_end |-> Some("h2"), verified_at |-> Some("2024-06-01T00:00:00Z"),
    first_invalid |-> Some({ << "id", "evt_9" >> }) ]

FullExportWire ==
  [ export_id |-> Some("exp_1"), format |-> Some("csv"),
    download_url |-> Some("https://files.example/exp_1"),
    expires_at |-> Some("2024-06-01T00:00:00Z"), event_count |-> Some(42),
    verification |-> Some(FullVerificationWire) ]

\* The payload that has the fields in present and misses the others.
Restrict(full, present) ==
  [ f \in DOMAIN full |-> IF f \in present THEN full[f] ELSE None ]

\* Which fields are present: all, none, all but one, only one.
Presence(fields) ==
  { fields, {} } \cup { fields \ {f} : f \in fields } \cup { {f} : f \in fields }

\* The payloads derived from full; stamps are its timestamp fields.
Payloads(full, stamps) ==
  { Restrict(full, present) : present \in Presence(DOMAIN full) }
  \cup { [full EXCEPT ![t] = Some(w)] : t \in stamps, w \in MalformedTexts }

\* Payloads with every field populated whose counts are 0, whose flags are
\* false, and whose timestamp is written with an offset.
ZeroValuedPayloads(kind) ==
  IF kind = "Agent"
    THEN { [FullAgentWire EXCEPT !.status = Some("active"), !.data_count = Some(0),
                                 !.checkpoint_count = Some(0),
                                 !.created_at = Some("2024-01-15T11:30:00+01:00")] }
  ELSE IF kind = "WriteResult"
    THEN { [FullWriteWire EXCEPT !.allowed = Some(TRUE)] }
  ELSE IF kind = "SearchResult"
    THEN { [FullSearchResultWire EXCEPT !.similarity = Some(0)] }
  ELSE IF kind = "DataSnapshot"
    THEN { [key_count |-> Some(0), total_size_bytes |-> Some(0)] }
  ELSE IF kind = "RestoreResult"
    THEN { [FullRestoreWire EXCEPT !.config_restored = Some(FALSE),
                                   !.data_restored = Some(FALSE),
                                   !.data_keys_restored = Some(0),
                                   !.data_keys_removed = Some(0),
                                   !.restored_at = Some("2024-01-15T11:30:00+01:00")] }
  ELSE IF kind = "Verification"
    THEN { [FullVerificationWire EXCEPT !.valid = Some(FALSE),
                                        !.events_checked = Some(0)] }
  ELSE IF kind = "ExportResult"
    THEN { [FullExportWire EXCEPT !.event_count = Some(0)] }
  ELSE { }

AgentPayloads ==
  Payloads(FullAgentWire, {"created_at", "updated_at"}) \cup ZeroValuedPayloads("Agent")
ConfigPayloads == Payloads(FullConfigWire, {"created_at"})
ConfigVersionPayloads == Payloads(FullConfigVersionWire, {"created_at"})
WritePayloads ==
  Payloads(FullWriteWire, {"expires_at", "created_at"})
  \cup { [FullWriteWire EXCEPT !.allowed = Some(TRUE), !.blocked_by = None,
                                !.reason = None] }
  \cup ZeroValuedPayloads("WriteResult")
DataEntryPayloads ==
  Payloads(FullDataEntryWire, {"created_at", "updated_at", "expires_at"})
SearchResultPayloads ==
  Payloads(FullSearchResultWire, {}) \cup ZeroValuedPayloads("SearchResult")
CheckpointPayloads ==
  Payloads(FullCheckpointWire, {"created_at"})
  \cup { [FullCheckpointWire EXCEPT !.data_snapshot = Some(snapshot)] :
           snapshot \in Payloads(FullSnapshotWire, {})
                        \cup ZeroValuedPayloads("DataSnapshot") }
RestorePayloads ==
  Payloads(FullRestoreWire, {"restored_at"}) \cup ZeroValuedPayloads("RestoreResult")
AuditEventPayloads == Payloads(FullAuditEventWire, {"timestamp"})
VerificationPayloads ==
  Payloads(FullVerificationWire, {"verified_at"})
  \cup ZeroValuedPayloads("Verification")
ExportPayloads ==
  Payloads(FullExportWire, {"expires_at"})
  \cup { [FullExportWire EXCEPT !.verification = Some(verification)] :
           verification \in VerificationPayloads }
  \cup ZeroValuedPayloads("ExportResult")

(***************************************************************************)
(* namespaces: the methods of agents, config, data, checkpoints, audit.    *)
(* Each awaits one call of the pipeline and builds its result from the     *)
(* value returned.                                                         *)
(***************************************************************************)
\* Longest collection in a response.
MaxListLen == 2

AgentOps ==
  { "agents.create", "agents.get", "agents.update", "agents.suspend",
    "agents.activate" }
ConfigOps == { "config.get", "config.update", "config.getVersion", "config.rollback" }
CheckpointOps == { "checkpoints.create", "checkpoints.get" }
DeleteOps == { "agents.delete", "data.delete", "checkpoints.delete" }
ListOps ==
  { "agents.list", "config.versions", "data.writeBatch", "data.list",
    "data.search", "checkpoints.list", "audit.query" }
Operations ==
  AgentOps \cup ConfigOps \cup CheckpointOps \cup DeleteOps \cup ListOps
  \cup { "data.write", "data.read", "data.readFull", "data.deletePrefix",
         "checkpoints.restore", "audit.get", "audit.verify", "audit.export" }

\* The methods whose this.http call is inside try { } catch.
CatchingOps == { "agents.get", "data.read", "data.readFull" }

\* Variant of IsNotFoundError: the error is recognised by its status code.
IsNotFoundError_ByStatus(error) == IsAnchorAPIError(error) /\ error.statusCode = 404

\* error instanceof NotFoundError
IsNotFoundError(error) == error.name = "NotFoundError"

\* The entity a method's parse function makes ("Key" for the keys of
\* data.list).
KindOfOp(op) ==
  IF op \in AgentOps \cup {"agents.list"} THEN "Agent"
  ELSE IF op \in ConfigOps THEN "Config"
  ELSE IF op = "config.versions" THEN "ConfigVersion"
  ELSE IF op \in {"data.write", "data.writeBatch"} THEN "WriteResult"
  ELSE IF op = "data.readFull" THEN "DataEntry"
  ELSE IF op = "data.search" THEN "SearchResult"
  ELSE IF op = "data.list" THEN "Key"
  ELSE IF op \in CheckpointOps \cup {"checkpoints.list"} THEN "Checkpoint"
  ELSE IF op = "checkpoints.restore" THEN "RestoreResult"
  ELSE IF op \in {"audit.get", "audit.query"} THEN "AuditEvent"
  ELSE IF op = "audit.verify" THEN "Verification"
  ELSE IF op = "audit.export" THEN "ExportResult"
  ELSE "none"

Parse(kind, data) ==
  IF kind = "Agent" THEN parseAgent(data)
  ELSE IF kind = "Config" THEN parseConfig(data)
  ELSE IF kind = "ConfigVersion" THEN parseConfigVersion(data)
  ELSE IF kind = "WriteResult" THEN parseWriteResult(data)
  ELSE IF kind = "DataEntry" THEN parseDataEntry(data)
  ELSE IF kind = "SearchResult" THEN parseSearchResult(data)
  ELSE IF kind = "Key" THEN OrStr(data.key, "")
  ELSE IF kind = "Checkpoint" THEN parseCheckpoint(data)
  ELSE IF kind = "RestoreResult" THEN parseRestoreResult(data)
  ELSE IF kind = "AuditEvent" THEN parseAuditEvent(data)
  ELSE IF kind = "Verification" THEN parseVerification(data)
  ELSE parseExportResult(data)

PayloadsOf(kind) ==
  IF kind = "Agent" THEN AgentPayloads
  ELSE IF kind = "Config" THEN ConfigPayloads
  ELSE IF kind = "ConfigVersion" THEN ConfigVersionPayloads
  ELSE IF kind = "WriteResult" THEN WritePayloads
  ELSE IF kind = "DataEntry" THEN DataEntryPayloads
  ELSE IF kind = "SearchResult" THEN SearchResultPayloads
  ELSE IF kind = "Key" THEN { [key |-> k] : k \in {None, Some("user:123:preference")} }
  ELSE IF kind = "Checkpoint" THEN CheckpointPayloads
  ELSE IF kind = "RestoreResult" THEN RestorePayloads
  ELSE IF kind = "AuditEvent" THEN AuditEventPayloads
  ELSE IF kind = "Verification" THEN VerificationPayloads
  ELSE ExportPayloads

\* The field of the response that holds the collection.
CollectionField(op) ==
  IF op = "agents.list" THEN "agents"
  ELSE IF op = "config.versions" THEN "versions"
  ELSE IF op = "data.list" THEN "keys"
  ELSE IF op = "checkpoints.list" THEN "checkpoints"
  ELSE IF op = "audit.query" THEN "events"
  ELSE "results"

\* response.agent || response
AgentOf(r) == IF "agent" \in DOMAIN r /\ r.agent # None THEN r.agent[1] ELSE r

\* Variant of ItemsOf: the collection is taken in reverse order.
ItemsOf_Reversed(op, r) ==
  IF r[CollectionField(op)] = None THEN << >>
  ELSE [ i \in DOMAIN r[CollectionField(op)][1] |->
           r[CollectionField(op)][1][Len(r[CollectionField(op)][1]) + 1 - i] ]

\* response.<collection> || []
ItemsOf(op, r) ==
  IF r[CollectionField(op)] = None THEN << >> ELSE r[CollectionField(op)][1]

\* The elements of the collections in a response: the payload with every
\* field and the payload with none.
ListElements(kind) ==
  IF kind = "Key" THEN PayloadsOf(kind)
  ELSE { p \in PayloadsOf(kind) :
           \/ \A f \in DOMAIN p : p[f] = None
           \/ \A f \in DOMAIN p : p[f] # None }
Lists(elements) == UNION { [1..n -> elements] : n \in 0..MaxListLen }

\* The JSON values the pipeline returns to a method.
Responses(op) ==
  IF op \in DeleteOps THEN { EmptyObject }
  ELSE IF op = "data.read"
    THEN { [value |-> v] : v \in {None, Some(""), Some("dark_mode")} }
  ELSE IF op = "data.deletePrefix"
    THEN { [deleted_count |-> n] : n \in {None, Some(0), Some(5)} }
  ELSE IF op \in ListOps
    THEN { [f \in {CollectionField(op)} |-> items] :
             items \in {None} \cup {Some(l) : l \in Lists(ListElements(KindOfOp(op)))} }
  ELSE IF op \in AgentOps
    THEN AgentPayloads \cup { [agent |-> Some(p)] : p \in AgentPayloads }
  ELSE PayloadsOf(KindOfOp(op))

\* What the method returns for the value r the pipeline returned.
FacadeResult(op, r) ==
  IF op \in DeleteOps THEN [kind |-> "value", value |-> TRUE]
  ELSE IF op = "data.read"
    THEN IF r.value = None THEN [kind |-> "null"]
         ELSE [kind |-> "value", value |-> r.value[1]]
  ELSE IF op = "data.deletePrefix"
    THEN [kind |-> "value", value |-> OrNum(r.deleted_count, 0)]
  ELSE IF op \in ListOps
    THEN [kind |-> "value",
          value |-> [i \in DOMAIN ItemsOf(op, r) |-> Parse(KindOfOp(op), ItemsOf(op, r)[i])]]
  ELSE IF op \in AgentOps
    THEN [kind |-> "value", value |-> parseAgent(AgentOf(r))]
  ELSE [kind |-> "value", value |-> Parse(KindOfOp(op), r)]

\* What the method does with an error the pipeline threw.
FacadeCatch(op, error) ==
  IF op \in CatchingOps /\ IsNotFoundError(error) THEN [kind |-> "null"]
  ELSE [kind |-> "throws", error |-> error]

\* The non-2xx responses a call of the pipeline ends on.
FailureResponses ==
  { [status |-> st, body |-> b] :
      st \in {400, 403, 404, 429, 500},
      b \in { EmptyObject,
              [EmptyObject EXCEPT !.message = Some("Invalid input")],
              [EmptyObject EXCEPT !.blocked_by = Some("pii_filter")],
              [EmptyObject EXCEPT !.error = Some("bad request"),
                                  !.policy_name = Some("no_secrets")] } }

FacadeInit ==
  /\ FacadeParked
  /\ IntegrationsParked
  /\ CallParked
  /\ ClientParked
  /\ PairParked

\* The method is called and awaits this.http.get/post/put/patch/delete.
Invoke(op) ==
  /\ facadeOp = None \/ outcome # None
  /\ facadeOp' = Some(op)
  /\ answer' = None
  /\ raised' = None
  /\ outcome' = None
  /\ UNCHANGED outsideFacade

\* The pipeline returns the parsed body of a 2xx response.
HttpReturns(r) ==
  /\ facadeOp # None /\ outcome = None
  /\ r \in Responses(facadeOp[1])
  /\ answer' = Some([status |-> 200, body |-> r])
  /\ outcome' = Some(FacadeResult(facadeOp[1], r))
  /\ UNCHANGED << facadeOp, raised, outsideFacade >>

\* The pipeline throws the classified error of a non-2xx response.
HttpThrows(f) ==
  /\ facadeOp # None /\ outcome = None
  /\ answer' = Some(f)
  /\ raised' = Some(handleError(StatusCode(f.status), f.body))
  /\ outcome' = Some(FacadeCatch(facadeOp[1], raised'[1]))
  /\ UNCHANGED << facadeOp, outsideFacade >>

\* The pipeline throws a NetworkError: no attempt received a response.
HttpFails(e) ==
  /\ facadeOp # None /\ outcome = None
  /\ raised' = Some(FetchFailure(e, DefaultTimeout))
  /\ outcome' = Some(FacadeCatch(facadeOp[1], raised'[1]))
  /\ UNCHANGED << facadeOp, answer, outsideFacade >>

FacadeNext ==
  \/ \E op \in Operations : Invoke(op)
  \/ \E op \in Operations : \E r \in Responses(op) : HttpReturns(r)
  \/ \E f \in FailureResponses : HttpThrows(f)
  \/ \E e \in FetchErrors : HttpFails(e)

FacadeSpec == FacadeInit /\ [][FacadeNext]_vars

(***************************************************************************)
(* C15: NotFound becomes a null result exactly in agents.get, data.read    *)
(* and data.readFull.  When the pipeline throws, those three methods       *)
(* return null for a NotFoundError and rethrow any other error unchanged   *)
(* (a PolicyViolationError raised on a 404 included); every other method   *)
(* throws to its caller whatever the pipeline threw, NotFoundError too.    *)
(***************************************************************************)
Lookups == { "agents.get", "data.read", "data.readFull" }

PipelineThrew == facadeOp # None /\ raised # None /\ outcome # None

\* The body of the last response names a policy.
AnswerNamesPolicy ==
  Present(answer[1].body.blocked_by) \/ Present(answer[1].body.policy_name)

C15_NotFoundToNull ==
  PipelineThrew =>
    /\ IF facadeOp[1] \in Lookups /\ raised[1].name = "NotFoundError"
         THEN outcome[1] = [kind |-> "null"]
         ELSE outcome[1] = [kind |-> "throws", error |-> raised[1]]
    /\ (answer # None /\ answer[1].status = 404) =>
          IF AnswerNamesPolicy
            THEN /\ raised[1].name = "PolicyViolationError"
                 /\ outcome[1].kind = "throws"
            ELSE /\ raised[1].name = "NotFoundError"
                 /\ outcome[1].kind = (IF facadeOp[1] \in Lookups THEN "null" ELSE "throws")

\* data.readFull on a 404 whose body names a policy: the
\* PolicyViolationError reaches the caller.
C15_Witness ==
  /\ PipelineThrew
  /\ facadeOp = Some("data.readFull")
  /\ answer[1].status = 404
  /\ answer[1].body.blocked_by = Some("pii_filter")
  /\ outcome[1].kind = "throws"
  /\ outcome[1].error.name = "PolicyViolationError"
  /\ outcome[1].error.statusCode = 404

(***************************************************************************)
(* C17, as stated: when the response to data.write names the blocking      *)
(* policy in blocked_by, data.write returns a WriteResult with allowed =   *)
(* false, blockedBy equal to that policy name and the reason copied,       *)
(* instead of throwing.                                                    *)
(***************************************************************************)
WriteAnswered == facadeOp = Some("data.write") /\ answer # None /\ outcome # None

EntityKinds ==
  { "Agent", "Config", "ConfigVersion", "WriteResult", "DataEntry", "SearchResult",
    "Checkpoint", "DataSnapshot", "RestoreResult", "AuditEvent", "Verification",
    "ExportResult" }

Returned ==
  /\ facadeOp # None /\ answer # None /\ outcome # None
  /\ answer[1].status = 200
  /\ outcome[1].kind = "value"

NormalizedPairs(kind) ==
  IF ~Returned THEN << >>
  ELSE
    LET op == facadeOp[1]
        r == answer[1].body
        v == outcome[1].value
    IN
    IF KindOfOp(op) = kind /\ op \in ListOps
      THEN [ i \in DOMAIN ItemsOf(op, r) |-> [wire |-> ItemsOf(op, r)[i], entity |-> v[i]] ]
    ELSE IF KindOfOp(op) = kind
      THEN << [wire |-> IF op \in AgentOps THEN AgentOf(r) ELSE r, entity |-> v] >>
    ELSE IF kind = "Verification" /\ op = "audit.export" /\ r.verification # None
      THEN << [wire |-> r.verification[1], entity |-> v.verification[1]] >>
    ELSE IF kind = "DataSnapshot" /\ op \in CheckpointOps
      THEN << [wire |-> IF r.data_snapshot = None THEN EmptySnapshotWire
                        ELSE r.data_snapshot[1],
               entity |-> v.dataSnapshot] >>
    ELSE << >>

\* The timestamp fields of an entity kind, each with its wire field.
Stamps(kind) ==
  IF kind = "Agent"
    THEN { << "createdAt", "created_at" >>, << "updatedAt", "updated_at" >> }
  ELSE IF kind \in {"Config", "ConfigVersion", "Checkpoint"}
    THEN { << "createdAt", "created_at" >> }
  ELSE IF kind = "WriteResult"
    THEN { << "expiresAt", "expires_at" >>, << "createdAt", "created_at" >> }
  ELSE IF kind = "DataEntry"
    THEN { << "createdAt", "created_at" >>, << "updatedAt", "updated_at" >>,
           << "expiresAt", "expires_at" >> }
  ELSE IF kind = "RestoreResult" THEN { << "restoredAt", "restored_at" >> }
  ELSE IF kind = "AuditEvent" THEN { << "timestamp", "timestamp" >> }
  ELSE IF kind = "Verification" THEN { << "verifiedAt", "verified_at" >> }
  ELSE IF kind = "ExportResult" THEN { << "expiresAt", "expires_at" >> }
  ELSE { }

(***************************************************************************)
(* C19: every timestamp field of every normalized entity (createdAt,       *)
(* updatedAt, expiresAt, restoredAt, verifiedAt, timestamp) is, for every  *)
(* wire payload, a valid instant or absent: a Date holding a valid instant *)
(* when the wire field is present, absent when the wire field is missing.  *)
(***************************************************************************)
C19_TimestampsValidOrAbsent ==
  \A kind \in EntityKinds :
    \A i \in DOMAIN NormalizedPairs(kind) :
      \A st \in Stamps(kind) :
        LET onWire == NormalizedPairs(kind)[i].wire[st[2]]
            field == NormalizedPairs(kind)[i].entity[st[1]]
        IN IF onWire = None THEN field = None
           ELSE field # None /\ field[1].valid

(***************************************************************************)
(* C20: normalizing a payload with missing fields never throws and follows *)
(* fixed rules for every entity.  A required field that is missing on the  *)
(* wire takes its zero value: '' for strings, {} for metadata and config   *)
(* mappings, 0 for counts, false for the restore and valid flags, 'active' *)
(* for Agent.status, 'allowed' for AuditEvent.result, 'json' for           *)
(* ExportResult.format (and true for WriteResult.allowed).  An optional    *)
(* field that is missing stays absent: configVersion, dataCount,           *)
(* checkpointCount, previousVersion, createdBy, auditId of Config and      *)
(* Checkpoint, blockedBy, reason, previousHash, label, description,        *)
(* summary, chainStart, chainEnd, firstInvalid, verification.              *)
(***************************************************************************)
\* p is a wire payload with the entity made from it.
Zero(p, wireField, field, zero) ==
  p.wire[wireField] = None => p.entity[field] = zero
StaysAbsent(p, wireField, field) ==
  p.wire[wireField] = None => p.entity[field] = None

MissingFieldRules(kind, p) ==
  IF kind = "Agent" THEN
    /\ (p.wire.id = None /\ p.wire.agent_id = None) => p.entity.id = ""
    /\ Zero(p, "name", "name", "")
    /\ Zero(p, "status", "status", "active")
    /\ (p.wire.metadata = None /\ p.wire.config = None) => p.entity.metadata = {}
    /\ StaysAbsent(p, "config_version", "configVersion")
    /\ StaysAbsent(p, "data_count", "dataCount")
    /\ StaysAbsent(p, "checkpoint_count", "checkpointCount")
  ELSE IF kind = "Config" THEN
    /\ Zero(p, "agent_id", "agentId", "")
    /\ Zero(p, "version", "version", "")
    /\ Zero(p, "config", "config", {})
    /\ StaysAbsent(p, "previous_version", "previousVersion")
    /\ StaysAbsent(p, "created_by", "createdBy")
    /\ StaysAbsent(p, "audit_id", "auditId")
  ELSE IF kind = "ConfigVersion" THEN
    /\ Zero(p, "version", "version", "")
    /\ StaysAbsent(p, "created_by", "createdBy")
    /\ StaysAbsent(p, "summary", "summary")
  ELSE IF kind = "WriteResult" THEN
    /\ Zero(p, "key", "key", "")
    /\ Zero(p, "allowed", "allowed", TRUE)
    /\ Zero(p, "audit_id", "auditId", "")
    /\ StaysAbsent(p, "blocked_by", "blockedBy")
    /\ StaysAbsent(p, "reason", "reason")
  ELSE IF kind = "DataEntry" THEN
    /\ Zero(p, "key", "key", "")
    /\ Zero(p, "value", "value", "")
    /\ Zero(p, "metadata", "metadata", {})
    /\ Zero(p, "audit_id", "auditId", "")
  ELSE IF kind = "SearchResult" THEN
    /\ Zero(p, "key", "key", "")
    /\ Zero(p, "value", "value", "")
    /\ Zero(p, "similarity", "similarity", 0)
    /\ Zero(p, "metadata", "metadata", {})
  ELSE IF kind = "Checkpoint" THEN
    /\ Zero(p, "id", "id", "")
    /\ Zero(p, "agent_id", "agentId", "")
    /\ Zero(p, "config_version", "configVersion", "")
    /\ Zero(p, "data_snapshot", "dataSnapshot", [keyCount |-> 0, totalSizeBytes |-> 0])
    /\ StaysAbsent(p, "label", "label")
    /\ StaysAbsent(p, "description", "description")
    /\ StaysAbsent(p, "audit_id", "auditId")
  ELSE IF kind = "DataSnapshot" THEN
    /\ Zero(p, "key_count", "keyCount", 0)
    /\ Zero(p, "total_size_bytes", "totalSizeBytes", 0)
  ELSE IF kind = "RestoreResult" THEN
    /\ Zero(p, "restored_from", "restoredFrom", "")
    /\ Zero(p, "config_restored", "configRestored", FALSE)
    /\ Zero(p, "data_restored", "dataRestored", FALSE)
    /\ Zero(p, "data_keys_restored", "dataKeysRestored", 0)
    /\ Zero(p, "data_keys_removed", "dataKeysRemoved", 0)
    /\ Zero(p, "audit_id", "auditId", "")
    /\ StaysAbsent(p, "config_version", "configVersion")
  ELSE IF kind = "AuditEvent" THEN
    /\ Zero(p, "id", "id", "")
    /\ Zero(p, "agent_id", "agentId", "")
    /\ Zero(p, "operation", "operation", "")
    /\ Zero(p, "resource", "resource", "")
    /\ Zero(p, "result", "result", "allowed")
    /\ Zero(p, "hash", "hash", "")
    /\ Zero(p, "metadata", "metadata", {})
    /\ StaysAbsent(p, "blocked_by", "blockedBy")
    /\ StaysAbsent(p, "previous_hash", "previousHash")
  ELSE IF kind = "Verification" THEN
    /\ Zero(p, "valid", "valid", FALSE)
    /\ Zero(p, "events_checked", "eventsChecked", 0)
    /\ StaysAbsent(p, "chain_start", "chainStart")
    /\ StaysAbsent(p, "chain_end", "chainEnd")
    /\ StaysAbsent(p, "first_invalid", "firstInvalid")
  ELSE
    /\ Zero(p, "export_id", "exportId", "")
    /\ Zero(p, "format", "format", "json")
    /\ Zero(p, "download_url", "downloadUrl", "")
    /\ Zero(p, "event_count", "eventCount", 0)
    /\ StaysAbsent(p, "verification", "verification")

C20_MissingFieldDefaults ==
  /\ (answer # None /\ answer[1].status = 200 /\ outcome # None) =>
        outcome[1].kind \in {"value", "null"}
  /\ \A kind \in EntityKinds :
       \A i \in DOMAIN NormalizedPairs(kind) :
         MissingFieldRules(kind, NormalizedPairs(kind)[i])

\* agents.create answered { agent: {} }: '' id and name, 'active', {} and
\* no configVersion, dataCount or dates.
C20_Witness ==
  /\ Returned
  /\ facadeOp = Some("agents.create")
  /\ "agent" \in DOMAIN answer[1].body
  /\ \A f \in DOMAIN answer[1].body.agent[1] : answer[1].body.agent[1][f] = None
  /\ outcome[1].value.id = "" /\ outcome[1].value.name = ""
  /\ outcome[1].value.status = "active"
  /\ outcome[1].value.metadata = {}
  /\ outcome[1].value.configVersion = None
  /\ outcome[1].value.dataCount = None
  /\ outcome[1].value.createdAt = None

(***************************************************************************)
(* C21: round trip.  For every entity kind, normalizing a wire payload in  *)
(* which every documented field is populated yields an entity whose every  *)
(* field equals the corresponding wire value: the snake_case name maps to  *)
(* the canonical name, and a date equals the wire text by instant.         *)
(***************************************************************************)
\* The instant (seconds since the epoch) an ISO-8601 text denotes.
InstantOf(iso) ==
  IF iso = "2024-06-01T00:00:00Z" THEN 1717200000 ELSE 1705314600

\* The fields of an entity kind with their wire names: required fields,
\* optional fields (dates and nested objects apart).
RequiredFields(kind) ==
  IF kind = "Agent"
    THEN { << "id", "id" >>, << "name", "name" >>, << "status", "status" >>,
           << "metadata", "metadata" >> }
  ELSE IF kind = "Config"
    THEN { << "agentId", "agent_id" >>, << "version", "version" >>,
           << "config", "config" >> }
  ELSE IF kind = "ConfigVersion" THEN { << "version", "version" >> }
  ELSE IF kind = "WriteResult"
    THEN { << "key", "key" >>, << "allowed", "allowed" >>, << "auditId", "audit_id" >> }
  ELSE IF kind = "DataEntry"
    THEN { << "key", "key" >>, << "value", "value" >>, << "metadata", "metadata" >>,
           << "auditId", "audit_id" >> }
  ELSE IF kind = "SearchResult"
    THEN { << "key", "key" >>, << "value", "value" >>,
           << "similarity", "similarity" >>, << "metadata", "metadata" >> }
  ELSE IF kind = "Checkpoint"
    THEN { << "id", "id" >>, << "agentId", "agent_id" >>,
           << "configVersion", "config_version" >> }
  ELSE IF kind = "DataSnapshot"
    THEN { << "keyCount", "key_count" >>, << "totalSizeBytes", "total_size_bytes" >> }
  ELSE IF kind = "RestoreResult"
    THEN { << "restoredFrom", "restored_from" >>,
           << "configRestored", "config_restored" >>,
           << "dataRestored", "data_restored" >>,
           << "dataKeysRestored", "data_keys_restored" >>,
           << "dataKeysRemoved", "data_keys_removed" >>, << "auditId", "audit_id" >> }
  ELSE IF kind = "AuditEvent"
    THEN { << "id", "id" >>, << "agentId", "agent_id" >>,
           << "operation", "operation" >>, << "resource", "resource" >>,
           << "result", "result" >>, << "hash", "hash" >>,
           << "metadata", "metadata" >> }
  ELSE IF kind = "Verification"
    THEN { << "valid", "valid" >>, << "eventsChecked", "events_checked" >> }
  ELSE { << "exportId", "export_id" >>, << "format", "format" >>,
         << "downloadUrl", "download_url" >>, << "eventCount", "event_count" >> }

OptionalFields(kind) ==
  IF kind = "Agent"
    THEN { << "configVersion", "config_version" >>, << "dataCount", "data_count" >>,
           << "checkpointCount", "checkpoint_count" >> }
  ELSE IF kind = "Config"
    THEN { << "previousVersion", "previous_version" >>,
           << "createdBy", "created_by" >>, << "auditId", "audit_id" >> }
  ELSE IF kind = "ConfigVersion"
    THEN { << "createdBy", "created_by" >>, << "summary", "summary" >> }
  ELSE IF kind = "WriteResult"
    THEN { << "blockedBy", "blocked_by" >>, << "reason", "reason" >> }
  ELSE IF kind = "Checkpoint"
    THEN { << "label", "label" >>, << "description", "description" >>,
           << "auditId", "audit_id" >> }
  ELSE IF kind = "RestoreResult" THEN { << "configVersion", "config_version" >> }
  ELSE IF kind = "AuditEvent"
    THEN { << "blockedBy", "blocked_by" >>, << "previousHash", "previous_hash" >> }
  ELSE IF kind = "Verification"
    THEN { << "chainStart", "chain_start" >>, << "chainEnd", "chain_end" >>,
           << "firstInvalid", "first_invalid" >> }
  ELSE { }

\* Every field of the payload is populated, timestamps with ISO-8601 text.
FullyPopulated(kind, wire) ==
  /\ \A f \in DOMAIN wire : wire[f] # None
  /\ \A st \in Stamps(kind) : wire[st[2]][1] \in IsoTexts

RoundTrips(kind, p) ==
  /\ \A f \in RequiredFields(kind) : p.entity[f[1]] = p.wire[f[2]][1]
  /\ \A f \in OptionalFields(kind) : p.entity[f[1]] = p.wire[f[2]]
  /\ \A st \in Stamps(kind) :
       /\ p.entity[st[1]] # None
       /\ p.entity[st[1]][1].valid
       /\ p.entity[st[1]][1].time = InstantOf(p.wire[st[2]][1])
  /\ kind = "Checkpoint" => p.entity.dataSnapshot = parseDataSnapshot(p.wire.data_snapshot[1])
  /\ kind = "ExportResult" =>
       p.entity.verification = Some(parseVerification(p.wire.verification[1]))

C21_RoundTrip ==
  \A kind \in EntityKinds :
    \A i \in DOMAIN NormalizedPairs(kind) :
      FullyPopulated(kind, NormalizedPairs(kind)[i].wire) =>
        RoundTrips(kind, NormalizedPairs(kind)[i])

\* checkpoints.restore answered with every field populated, the flags false,
\* the counts 0 and the timestamp written with an offset.
C21_Witness ==
  /\ Returned
  /\ facadeOp = Some("checkpoints.restore")
  /\ FullyPopulated("RestoreResult", answer[1].body)
  /\ answer[1].body.restored_at = Some("2024-01-15T11:30:00+01:00")
  /\ outcome[1].value.restoredAt = Some([valid |-> TRUE, time |-> 1705314600])
  /\ outcome[1].value.configRestored = FALSE
  /\ outcome[1].value.dataKeysRestored = 0
  /\ outcome[1].value.configVersion = Some("v3")

(***************************************************************************)
(* C22: every collection-valued method (agents.list, audit.query,          *)
(* data.list, config.versions, checkpoints.list, data.search,              *)
(* data.writeBatch) returns an empty sequence, never null or undefined,    *)
(* when the collection field is missing on the wire, and otherwise one     *)
(* normalized element per wire element, in the same order.                 *)
(***************************************************************************)
CollectionMethods ==
  { "agents.list", "audit.query", "data.list", "config.versions",
    "checkpoints.list", "data.search", "data.writeBatch" }

CollectionAnswered ==
  /\ facadeOp # None /\ facadeOp[1] \in CollectionMethods
  /\ answer # None /\ answer[1].status = 200
  /\ outcome # None

WireCollection == answer[1].body[CollectionField(facadeOp[1])]

C22_CollectionsInOrder ==
  CollectionAnswered =>
    /\ outcome[1].kind = "value"
    /\ WireCollection = None => outcome[1].value = << >>
    /\ WireCollection # None =>
         /\ Len(outcome[1].value) = Len(WireCollection[1])
         /\ \A i \in 1..Len(WireCollection[1]) :
              outcome[1].value[i] = Parse(KindOfOp(facadeOp[1]), WireCollection[1][i])

\* data.writeBatch answered with a blocked result followed by an empty one.
C22_Witness ==
  /\ CollectionAnswered
  /\ facadeOp = Some("data.writeBatch")
  /\ WireCollection # None
  /\ Len(WireCollection[1]) = 2
  /\ WireCollection[1][1] = FullWriteWire
  /\ WireCollection[1][2].key = None
  /\ outcome[1].value[1].allowed = FALSE /\ outcome[1].value[1].key = "user:123:email"
  /\ outcome[1].value[2].allowed = TRUE /\ outcome[1].value[2].key = ""

(***************************************************************************)
(* C23: nested value objects are normalized with the rules of top-level    *)
(* entities.  ExportResult.verification is absent when the wire payload    *)
(* omits verification, and otherwise is the Verification that normalizing  *)
(* the nested payload on its own gives.  Checkpoint.dataSnapshot is always *)
(* present: it is { keyCount: 0, totalSizeBytes: 0 } when the wire payload *)
(* omits data_snapshot or gives it without counts, and otherwise the       *)
(* DataSnapshot that normalizing the nested payload gives.                 *)
(***************************************************************************)
ZeroSnapshot == [keyCount |-> 0, totalSizeBytes |-> 0]

NestedVerificationRule(p) ==
  IF p.wire.verification = None THEN p.entity.verification = None
  ELSE
    LET nested == [wire |-> p.wire.verification[1], entity |-> p.entity.verification[1]]
    IN /\ p.entity.verification # None
       /\ nested.entity = Parse("Verification", nested.wire)
       /\ MissingFieldRules("Verification", nested)
       /\ FullyPopulated("Verification", nested.wire) => RoundTrips("Verification", nested)

NestedSnapshotRule(p) ==
  /\ DOMAIN p.entity.dataSnapshot = {"keyCount", "totalSizeBytes"}
  /\ p.wire.data_snapshot = None => p.entity.dataSnapshot = ZeroSnapshot
  /\ p.wire.data_snapshot # None =>
       LET nested == [wire |-> p.wire.data_snapshot[1], entity |-> p.entity.dataSnapshot]
       IN /\ (nested.wire.key_count = None /\ nested.wire.total_size_bytes = None)
               => nested.entity = ZeroSnapshot
          /\ MissingFieldRules("DataSnapshot", nested)
          /\ FullyPopulated("DataSnapshot", nested.wire) => RoundTrips("DataSnapshot", nested)

C23_NestedObjects ==
  /\ \A i \in DOMAIN NormalizedPairs("ExportResult") :
       NestedVerificationRule(NormalizedPairs("ExportResult")[i])
  /\ \A i \in DOMAIN NormalizedPairs("Checkpoint") :
       NestedSnapshotRule(NormalizedPairs("Checkpoint")[i])

\* checkpoints.get answered with a data_snapshot that has no counts.
C23_Witness ==
  /\ Returned
  /\ facadeOp = Some("checkpoints.get")
  /\ answer[1].body.data_snapshot = Some(EmptySnapshotWire)
  /\ answer[1].body.id = Some("cp_1")
  /\ outcome[1].value.dataSnapshot = ZeroSnapshot

(***************************************************************************)
(* C24: the request URL is the base URL followed by the path, followed by  *)
(* one key=value pair for each query parameter whose value is neither      *)
(* undefined nor null, in the insertion order of the parameter mapping.    *)
(* Parameters whose value is 0 or false are kept, serialized as '0' and    *)
(* 'false'; when all parameters are omitted no query string is appended.   *)
(***************************************************************************)
\* The key=value pairs the URL is to carry, in order.
RECURSIVE ExpectedPairs(_)
ExpectedPairs(params) ==
  IF params = << >> THEN << >>
  ELSE LET q == params[1]
           rest == ExpectedPairs(Tail(params))
       IN IF q.value = Undefined \/ q.value = Null THEN rest
          ELSE << FormEncode(q.key) \o "="
                  \o ( IF q.value = Num(0) THEN "0"
                       ELSE IF q.value = Bool(FALSE) THEN "false"
                       ELSE FormEncode(StringOf(q.value)) ) >> \o rest

RECURSIVE JoinedBy(_, _)
JoinedBy(texts, separator) ==
  IF texts = << >> THEN ""
  ELSE IF Len(texts) = 1 THEN texts[1]
  ELSE texts[1] \o separator \o JoinedBy(Tail(texts), separator)

ExpectedUrl ==
  LET pairs == IF arguments[1].params = None THEN << >>
               ELSE ExpectedPairs(arguments[1].params[1])
  IN UrlText(BaseUrl(config)) \o arguments[1].endpoint
     \o (IF pairs = << >> THEN "" ELSE "?" \o JoinedBy(pairs, "&"))

C24_QueryString ==
  \A i \in DOMAIN sent : sent[i].url = ExpectedUrl

\* A GET whose parameters are a prefix, an undefined limit, verbose = false
\* and offset = 0, in that order.
C24_Witness ==
  /\ sent # << >>
  /\ arguments[1].params =
       Some(<< Param("prefix", Str("user:")), Param("limit", Undefined),
               Param("verbose", Bool(FALSE)), Param("offset", Num(0)) >>)
  /\ config.baseUrl = None
  /\ sent[1].url = "https://api.getanchor.dev/agents?prefix=user%3A&verbose=false&offset=0"

(***************************************************************************)
(* C25: the headers of every transport attempt are: the User-Agent header  *)
(* that identifies the client, always; the X-API-Key header if and only if *)
(* a non-empty API key is configured; the JSON Content-Type header if and  *)
(* only if a body is sent with the request (so not for GET and DELETE, nor *)
(* for a POST made without a payload).                                     *)
(***************************************************************************)
HeaderNames(headers) == { h[1] : h \in headers }

AttemptHeaders(i) ==
  /\ HeaderNames(sent[i].headers) \subseteq {"User-Agent", "X-API-Key", "Content-Type"}
  /\ << "User-Agent", "anchorai-typescript/1.0.0" >> \in sent[i].headers
  /\ "X-API-Key" \in HeaderNames(sent[i].headers)
       <=> (config.apiKey # None /\ config.apiKey[1] # "")
  /\ "X-API-Key" \in HeaderNames(sent[i].headers)
       => << "X-API-Key", config.apiKey[1] >> \in sent[i].headers
  /\ << "Content-Type", "application/json" >> \in sent[i].headers
       <=> sent[i].body # None
  /\ "Content-Type" \in HeaderNames(sent[i].headers)
       <=> sent[i].body # None
  /\ sent[i].method \in {"GET", "DELETE"} => sent[i].body = None
  /\ arguments[1].data = None => sent[i].body = None

C25_Headers == \A i \in DOMAIN sent : AttemptHeaders(i)

\* The second attempt of a POST made without a payload, by a client with an
\* API key.
C25_Witness ==
  /\ Len(sent) = 2
  /\ arguments = Some(Arguments("POST", "/agents", None, None))
  /\ sent[2].headers = { << "User-Agent", "anchorai-typescript/1.0.0" >>,
                          << "X-API-Key", "anc_test_key" >> }
  /\ sent[2].body = None

(***************************************************************************)
(* C28: the retry decision does not depend on the HTTP method, and every   *)
(* attempt of one logical call sends the same request again.  Whatever the *)
(* method (GET, POST, PUT, PATCH, DELETE), a failed attempt is retried on  *)
(* the same conditions: the failure is retryable (fetch rejected, or the   *)
(* response is neither 2xx nor a 4xx other than 429) and attempts remain,  *)
(* with the budget of 1 + retryAttempts and the backoff of                 *)
(* retryDelay * 2^attempt; and all attempts of a call carry the same       *)
(* method, URL, headers and serialized body, so a write whose response was *)
(* lost may be submitted up to 1 + retryAttempts times.                    *)
(***************************************************************************)
SameRequestEveryAttempt ==
  /\ Len(sent) = fetchCalls
  /\ Len(sent) <= Budget
  /\ \A i \in DOMAIN sent :
       /\ sent[i] = sent[1]
       /\ sent[i].method = arguments[1].method

\* The step decides what follows a failed attempt.
RetriesWhateverMethod ==
  /\ (pc = "fetch" /\ pc' \in {"sleep", "thrown"}) =>
       (pc' = "sleep" <=> attempt + 1 < Budget)
  /\ (pc = "text" /\ pc' # "text") =>
       (pc' = "sleep" <=>
          /\ ~IsOk(response[1].status)
          /\ ~(response[1].status \in 400..499 /\ response[1].status # 429)
          /\ attempt + 1 < Budget)
  /\ (pc # "sleep" /\ pc' = "sleep") =>
       sleeps' = Append(sleeps, BaseDelay * (2 ^ attempt))

C28_MethodBlindRetry ==
  /\ [](arguments # None => SameRequestEveryAttempt)
  /\ [][RetriesWhateverMethod]_vars

\* A POST with a payload whose first attempt got no response: the payload
\* is submitted a second time.
C28_Witness ==
  /\ arguments = Some(Arguments("POST", "/agents", Some({ << "name", "helper" >> }), None))
  /\ Len(sent) = 2
  /\ trace = << Rejected >>
  /\ sent[1].method = "POST" /\ sent[2].method = "POST"
  /\ sent[2].body = Some("{\"name\":\"helper\"}")
  /\ sent[2] = sent[1]

(***************************************************************************)
(* integrations/mem0.ts: AnchorMem0.add and AnchorMem0.update.  Each       *)
(* awaits anchor.data.write for the content, and calls the wrapped Mem0    *)
(* client only when the write is allowed.                                  *)
(***************************************************************************)
Contents == { "User prefers dark mode", "SSN 123-45-6789" }
WrapCalls ==
  { [method |-> "add", data |-> d, memoryId |-> None] : d \in Contents }
  \cup { [method |-> "update", data |-> d, memoryId |-> Some("mem_1")] : d \in Contents }

\* What anchor.data.write returns, and what it throws.
WriteResults == { parseWriteResult(w) : w \in WritePayloads }
WriteErrors ==
  { handleError(StatusCode(f.status), f.body) : f \in FailureResponses }
  \cup { FetchFailure(e, DefaultTimeout) : e \in FetchErrors }

\* What the Mem0 client resolves with.
Mem0Values == { "mem0_ok" }

\* Variant of Blocked: the write is blocked when it names a policy.
Blocked_ByPolicyName(policyCheck) == policyCheck.blockedBy # None

\* !policyCheck.allowed
Blocked(policyCheck) == ~policyCheck.allowed

\* The value returned for a blocked write.
BlockedResult(policyCheck) ==
  [allowed |-> FALSE, blockedBy |-> policyCheck.blockedBy, reason |-> policyCheck.reason]

\* The value returned when the Mem0 client has answered.
AllowedResult(call, policyCheck, mem0Result) ==
  IF call.method = "add"
    THEN [allowed |-> TRUE, mem0Result |-> mem0Result, expiresAt |-> policyCheck.expiresAt]
    ELSE [allowed |-> TRUE, mem0Result |-> mem0Result]

Mem0Init ==
  /\ Mem0Parked
  /\ CrewParked
  /\ CallParked
  /\ ClientParked
  /\ PairParked
  /\ FacadeParked

\* add / update is called: up to await this.anchor.data.write(...)
WrapInvoke(call) ==
  /\ wrapPc \in {"idle", "returned", "thrown"}
  /\ wrapCall' = Some(call)
  /\ wrapPc' = "write"
  /\ writes' = << [value |-> call.data, operation |-> "mem0." \o call.method] >>
  /\ verdict' = None
  /\ writeError' = None
  /\ mem0Calls' = << >>
  /\ wrapResult' = None
  /\ UNCHANGED outsideMem0

\* data.write returns: the blocked result, or the call of the Mem0 client.
WriteReturns(policyCheck) ==
  /\ wrapPc = "write"
  /\ verdict' = Some(policyCheck)
  /\ IF Blocked(policyCheck)
       THEN /\ wrapResult' = Some([kind |-> "value", value |-> BlockedResult(policyCheck)])
            /\ wrapPc' = "returned"
            /\ UNCHANGED mem0Calls
       ELSE /\ mem0Calls' = Append(mem0Calls, [method |-> wrapCall[1].method,
                                                data |-> wrapCall[1].data,
                                                memoryId |-> wrapCall[1].memoryId])
            /\ wrapPc' = "mem0"
            /\ UNCHANGED wrapResult
  /\ UNCHANGED << wrapCall, writes, writeError, outsideMem0 >>

\* data.write throws: the error leaves add / update.
WriteThrows(error) ==
  /\ wrapPc = "write"
  /\ writeError' = Some(error)
  /\ wrapResult' = Some([kind |-> "throws", error |-> error])
  /\ wrapPc' = "thrown"
  /\ UNCHANGED << wrapCall, writes, verdict, mem0Calls, outsideMem0 >>

\* this.mem0.add / update resolves.
Mem0Resolves(v) ==
  /\ wrapPc = "mem0"
  /\ wrapResult' = Some([kind |-> "value",
                          value |-> AllowedResult(wrapCall[1], verdict[1], v)])
  /\ wrapPc' = "returned"
  /\ UNCHANGED << wrapCall, writes, verdict, writeError, mem0Calls, outsideMem0 >>

\* this.mem0.add / update rejects.
Mem0Rejects ==
  /\ wrapPc = "mem0"
  /\ wrapResult' = Some([kind |-> "throws", error |-> [name |-> "Error", message |-> "mem0 failed"]])
  /\ wrapPc' = "thrown"
  /\ UNCHANGED << wrapCall, writes, verdict, writeError, mem0Calls, outsideMem0 >>

Mem0Next ==
  \/ \E call \in WrapCalls : WrapInvoke(call)
  \/ \E w \in WriteResults : WriteReturns(w)
  \/ \E e \in WriteErrors : WriteThrows(e)
  \/ \E v \in Mem0Values : Mem0Resolves(v)
  \/ Mem0Rejects

Mem0Spec == Mem0Init /\ [][Mem0Next]_vars

(***************************************************************************)
(* C26: add and update gate the wrapped Mem0 client on Anchor's verdict.   *)
(* The Mem0 add / update call happens only after the data.write for the    *)
(* same content has returned with allowed = true.  When the write returns  *)
(* allowed = false the Mem0 client is never called and the result is       *)
(* { allowed: false, blockedBy, reason } with no mem0Result.  When the     *)
(* write throws, the error propagates and the Mem0 client is never called. *)
(***************************************************************************)
C26_Mem0Gated ==
  /\ mem0Calls # << >> =>
       /\ verdict # None /\ verdict[1].allowed = TRUE
       /\ Len(mem0Calls) = 1
       /\ mem0Calls[1].method = wrapCall[1].method
       /\ Len(writes) = 1
       /\ mem0Calls[1].data = writes[1].value
  /\ (verdict # None /\ verdict[1].allowed = FALSE) =>
       /\ mem0Calls = << >>
       /\ wrapPc = "returned"
       /\ wrapResult = Some([kind |-> "value",
                              value |-> [allowed |-> FALSE,
                                         blockedBy |-> verdict[1].blockedBy,
                                         reason |-> verdict[1].reason]])
       /\ "mem0Result" \notin DOMAIN wrapResult[1].value
  /\ writeError # None =>
       /\ mem0Calls = << >>
       /\ wrapPc = "thrown"
       /\ wrapResult = Some([kind |-> "throws", error |-> writeError[1]])

\* update of a memory whose write came back blocked by pii_filter.
C26_Witness ==
  /\ wrapCall # None /\ wrapCall[1].method = "update"
  /\ verdict # None /\ verdict[1].allowed = FALSE
  /\ verdict[1].blockedBy = Some("pii_filter")
  /\ wrapResult # None
  /\ wrapResult[1].value.blockedBy = Some("pii_filter")
  /\ mem0Calls = << >>

(***************************************************************************)
(* AnchorCrewAgent and AnchorCrewMemory: every operation awaits            *)
(* ensureInitialized, which calls initialize when this._agentId is empty;  *)
(* initialize awaits anchor.agents.create and stores the id it returns.    *)
(* Operations are invoked while earlier ones are still awaiting.           *)
(***************************************************************************)
\* Number of operations invoked on one object.
MaxOperations == 3

CrewClasses == { "AnchorCrewAgent", "AnchorCrewMemory" }
CrewMethods(class) ==
  IF class = "AnchorCrewAgent" THEN { "initialize", "store", "retrieve", "search" }
  ELSE { "initialize", "save", "search", "get", "delete", "clear" }

\* options.agentId || ''
GivenAgentId == "agent_given"

\* The id in the answer to the n-th agents.create request.
IssuedId(n) == "agent_" \o ToString(n)

\* !this._agentId
NeedsAgent(id) == id = ""

CrewInit ==
  /\ crewClass \in CrewClasses
  /\ supplied \in BOOLEAN
  /\ agentId = IF supplied THEN GivenAgentId ELSE ""
  /\ crewOps = << >>
  /\ creates = << >>
  /\ issued = 0
  /\ dataCalls = << >>
  /\ started = 0
  /\ Mem0Parked
  /\ CallParked
  /\ ClientParked
  /\ PairParked
  /\ FacadeParked

\* An operation is invoked: ensureInitialized, and either the request of
\* agents.create or (initialize apart) the data request of the operation.
CrewInvoke(method) ==
  /\ started < MaxOperations
  /\ method \in CrewMethods(crewClass)
  /\ started' = started + 1
  /\ IF NeedsAgent(agentId)
       THEN /\ creates' = Append(creates, started + 1)
            /\ crewOps' = Append(crewOps, [method |-> method, pc |-> "creating"])
            /\ UNCHANGED dataCalls
       ELSE IF method = "initialize"
         THEN /\ crewOps' = Append(crewOps, [method |-> method, pc |-> "done"])
              /\ UNCHANGED << creates, dataCalls >>
       ELSE /\ dataCalls' = Append(dataCalls, [op |-> started + 1, agent |-> agentId])
            /\ crewOps' = Append(crewOps, [method |-> method, pc |-> "calling"])
            /\ UNCHANGED creates
  /\ UNCHANGED << crewClass, agentId, supplied, issued, outsideCrew >>

\* agents.create returns to initialize: this._agentId = agent.id, and the
\* operation goes on to its data request.
CreateReturns(o) ==
  /\ o \in DOMAIN crewOps
  /\ crewOps[o].pc = "creating"
  /\ issued' = issued + 1
  /\ agentId' = IssuedId(issued + 1)
  /\ IF crewOps[o].method = "initialize"
       THEN /\ crewOps' = [crewOps EXCEPT ![o].pc = "done"]
            /\ UNCHANGED dataCalls
       ELSE /\ dataCalls' = Append(dataCalls, [op |-> o, agent |-> agentId'])
            /\ crewOps' = [crewOps EXCEPT ![o].pc = "calling"]
  /\ UNCHANGED << crewClass, supplied, creates, started, outsideCrew >>

\* agents.create throws: the operation ends with the error.
CreateThrows(o) ==
  /\ o \in DOMAIN crewOps
  /\ crewOps[o].pc = "creating"
  /\ crewOps' = [crewOps EXCEPT ![o].pc = "failed"]
  /\ UNCHANGED << crewClass, agentId, supplied, creates, issued, dataCalls, started,
                  outsideCrew >>

\* The data request of the operation settles.
DataSettles(o) ==
  /\ o \in DOMAIN crewOps
  /\ crewOps[o].pc = "calling"
  /\ crewOps' = [crewOps EXCEPT ![o].pc = "done"]
  /\ UNCHANGED << crewClass, agentId, supplied, creates, issued, dataCalls, started,
                  outsideCrew >>

CrewNext ==
  \/ \E method \in {"initialize", "store", "retrieve", "search", "save", "get",
                      "delete", "clear"} : CrewInvoke(method)
  \/ \E o \in 1..MaxOperations : CreateReturns(o)
  \/ \E o \in 1..MaxOperations : CreateThrows(o)
  \/ \E o \in 1..MaxOperations : DataSettles(o)

CrewSpec == CrewInit /\ [][CrewNext]_vars

(***************************************************************************)
(* C27: an AnchorCrewAgent (and an AnchorCrewMemory) registers an agent    *)
(* with Anchor only if needed and at most once.  When an agentId was given *)
(* to the constructor no agents.create request is ever issued; otherwise   *)
(* exactly one agents.create request is issued over the lifetime of the    *)
(* object, however many operations are invoked, also when several are      *)
(* started before the first one has completed.                             *)
(***************************************************************************)
\* The operations invoked so far are the data operations (no explicit call
\* of initialize).
OnlyDataOperations == \A o \in DOMAIN crewOps : crewOps[o].method # "initialize"

C27_RegistersOnce ==
  OnlyDataOperations =>
    /\ supplied => creates = << >>
    /\ ~supplied => Len(creates) <= 1
    /\ (~supplied /\ started > 0) => Len(creates) = 1

(***************************************************************************)
(* C29: zero-valued settings are treated asymmetrically.  A configured     *)
(* retryAttempts of 0 is honoured: exactly one attempt and no backoff      *)
(* sleep.  A configured timeout of 0 or retryDelay of 0 is treated as      *)
(* unset and replaced by the default (30000 ms, 1000 ms), so that with     *)
(* retryDelay = 0 the backoff sleeps are 1000, 2000, 4000, ... ms.         *)
(***************************************************************************)
CallEnded == pc \in {"returned", "thrown"}

C29_ZeroSettings ==
  /\ config.retryAttempts = Some(0) =>
       /\ fetchCalls <= 1
       /\ sleeps = << >>
       /\ pc # "sleep"
       /\ (CallEnded /\ ParsesAsUrl(BaseUrl(config))) => fetchCalls = 1
  /\ config.retryDelay = Some(0) =>
       /\ \A i \in DOMAIN sleeps : sleeps[i] = 1000 * (2 ^ (i - 1))
       /\ (pc = "sleep" /\ config.retryAttempts # Some(0)) => Len(sleeps) = fetchCalls
  /\ (config.timeout = Some(0) /\ fetchError = Some(AbortError)) =>
       /\ pc = "sleep" => lastError[1].message = "Request timeout after 30000ms"
       /\ pc = "thrown" => result[1].message = "Request timeout after 30000ms"

\* timeout = 0, retryDelay = 0 and the default of three retries: after four
\* timed-out attempts the sleeps were 1000, 2000 and 4000 ms and the error
\* names the 30000 ms timeout.
C29_Witness ==
  /\ config.timeout = Some(0) /\ config.retryDelay = Some(0)
  /\ config.retryAttempts = None
  /\ pc = "thrown"
  /\ fetchCalls = 4
  /\ sleeps = << 1000, 2000, 4000 >>
  /\ fetchError = Some(AbortError)
  /\ result[1].message = "Request timeout after 30000ms"

(***************************************************************************)
(* C30: a failure while reading the response body is never surfaced and    *)
(* never retried as a transport failure.  The body is treated as empty     *)
(* ({}): on a 2xx status the call returns {} as a success, and on any      *)
(* other status the response is classified from the status code alone,     *)
(* with the synthesized message 'HTTP <code>'.  The per-attempt timeout no *)
(* longer applies once the response headers have arrived.                  *)
(***************************************************************************)
BodyReadFails == pc = "text" /\ text' = Some([kind |-> "throws"])

\* The message of the error made from the synthesized message: the
\* constructor of AnchorAPIError puts the status code before it.
SynthesizedMessage(status) ==
  ToString(status) \o ": " \o "HTTP " \o ToString(status)

BodyReadFailureRule ==
  BodyReadFails =>
    LET status == response[1].status IN
    /\ responseData' = Some(EmptyObject)
    /\ lastError' = lastError
    /\ fetchError' = fetchError
    /\ trace' = trace
    /\ IsOk(status) => pc' = "returned" /\ result' = Some(EmptyObject)
    /\ ~IsOk(status) =>
         /\ pc' \in {"thrown", "sleep"}
         /\ pc' = "sleep" => result' = None /\ attempt + 1 < Budget
         /\ pc' = "thrown" =>
              /\ result'[1].name = KindOfStatus(status)
              /\ result'[1].statusCode = status
              /\ result'[1].message = SynthesizedMessage(status)
              /\ result'[1].response = EmptyObject

C30_BodyReadFailure ==
  /\ [](pc = "text" => ~timerArmed)
  /\ [][pc' = "text" => (pc = "fetch" /\ ~timerArmed')]_vars
  /\ [][pc = "text" => fetchError' # Some(AbortError)]_vars
  /\ [][BodyReadFailureRule]_vars

\* A 404 whose body could not be read: NotFoundError, "HTTP 404".
C30_Witness ==
  /\ pc = "thrown"
  /\ text = Some([kind |-> "throws"])
  /\ response[1].status = 404
  /\ result[1].name = "NotFoundError"
  /\ result[1].message = "404: HTTP 404"
  /\ responseData = Some(EmptyObject)

====
